---- MODULE Spec2Model ----
(***************************************************************************)
(* Model of the geocode cache (build_postcode_dataset.py) and of the       *)
(* donor normalisation / monthly aggregation (data_pipeline.py).           *)
(*                                                                         *)
(* Strings that the code inspects character by character (postcodes,       *)
(* months, amounts) are sequences of one-character strings.  Every other   *)
(* field value is an opaque string.                                        *)
(***************************************************************************)
EXTENDS Integers, Sequences, FiniteSets, TLC

\* ------------------------------------------------------------------------
\* Bounds of the model
\* ------------------------------------------------------------------------

\* Longest list of postcodes handed to geocode_unique_postcodes.
MaxPostcodes == 2

\* ------------------------------------------------------------------------
\* Values
\* ------------------------------------------------------------------------

\* Python's None, pandas' NaN, and a key that is absent from a JSON object.
NoneV == "<None>"
NaN == "<NaN>"
Missing == "<missing>"

\* A missing postcode value (None / NaN in the input series).
NA == <<"<NA>">>

\* Raw postcode values a caller passes in: a code, a case and outer
\* whitespace variant of it, an inner whitespace variant of it, another
\* code, an all-whitespace string and a missing value.
RawPostcodes ==
    { <<"A", "1">>, <<" ", "a", "1", " ">>, <<"A", " ", "1">>,
      <<"B", "2">>, <<" ">>, NA }

\* ------------------------------------------------------------------------
\* str.strip(), str.upper(), sorted(set(...))
\* ------------------------------------------------------------------------

IsSpace(c) == c = " "

UpperChar(c) ==
    CASE c = "a" -> "A"
      [] c = "b" -> "B"
      [] c = "n" -> "N"
      [] c = "x" -> "X"
      [] OTHER -> c

\* str.upper()
Upper(s) == [n \in 1..Len(s) |-> UpperChar(s[n])]

RECURSIVE LStrip(_)
LStrip(s) ==
    IF s = <<>> THEN s
    ELSE IF IsSpace(Head(s)) THEN LStrip(Tail(s)) ELSE s

RECURSIVE RStrip(_)
RStrip(s) ==
    IF s = <<>> THEN s
    ELSE IF IsSpace(s[Len(s)]) THEN RStrip(SubSeq(s, 1, Len(s) - 1)) ELSE s

\* str.strip()
Strip(s) == RStrip(LStrip(s))

\* Code point order of the characters in use.
CharOrd(c) ==
    CASE c = " " -> 32
      [] c = "," -> 44
      [] c = "." -> 46
      [] c = "/" -> 47
      [] c = "0" -> 48
      [] c = "1" -> 49
      [] c = "2" -> 50
      [] c = "3" -> 51
      [] c = "4" -> 52
      [] c = "5" -> 53
      [] c = "6" -> 54
      [] c = "7" -> 55
      [] c = "8" -> 56
      [] c = "9" -> 57
      [] c = "A" -> 65
      [] c = "B" -> 66
      [] c = "C" -> 67
      [] c = "I" -> 73
      [] c = "M" -> 77
      [] c = "N" -> 78
      [] c = "W" -> 87
      [] c = "X" -> 88
      [] c = "a" -> 97
      [] c = "b" -> 98
      [] c = "n" -> 110
      [] c = "x" -> 120
      [] OTHER -> 163

\* Python's < on str: lexicographic by code point, a proper prefix first.
RECURSIVE StrLess(_, _)
StrLess(a, b) ==
    IF b = <<>> THEN FALSE
    ELSE IF a = <<>> THEN TRUE
    ELSE IF CharOrd(Head(a)) # CharOrd(Head(b))
         THEN CharOrd(Head(a)) < CharOrd(Head(b))
         ELSE StrLess(Tail(a), Tail(b))

\* The order turned round: the largest string first.
RECURSIVE Sorted_Descending(_)
Sorted_Descending(S) ==
    IF S = {} THEN <<>>
    ELSE LET m == CHOOSE x \in S : \A y \in S \ {x} : StrLess(y, x)
         IN <<m>> \o Sorted_Descending(S \ {m})

\* sorted(S) for a set of strings.
RECURSIVE Sorted(_)
Sorted(S) ==
    IF S = {} THEN <<>>
    ELSE LET m == CHOOSE x \in S : \A y \in S \ {x} : StrLess(x, y)
         IN <<m>> \o Sorted(S \ {m})

\* pd.notna(p)
NotNa(p) == p # NA

SeqRange(s) == {s[n] : n \in 1..Len(s)}

\* The codes neither deduplicated nor sorted: every value that is there,
\* stripped and uppercased, in the order of the input.
NormalisePostcodes_NoSet(ps) ==
    LET present == SelectSeq(ps, LAMBDA p : NotNa(p))
        cleaned == [n \in 1..Len(present) |-> Upper(Strip(present[n]))]
    IN SelectSeq(cleaned, LAMBDA p : p # <<>>)

\* Lines 70-71: strip and uppercase every non-missing value, drop the empty
\* ones, deduplicate and sort.
NormalisePostcodes(ps) ==
    LET cleaned == {Upper(Strip(ps[n])) : n \in {m \in 1..Len(ps) : NotNa(ps[m])}}
    IN Sorted({p \in cleaned : p # <<>>})

\* ------------------------------------------------------------------------
\* The postcodes.io service and get_postcode_coordinates
\* ------------------------------------------------------------------------

\* "result" objects of the service.  admin_county is null for one and
\* absent for the other; latitude is absent in the malformed one, and
\* latitude and longitude are null in the last one.
ResA ==
    [latitude |-> "51.4", longitude |-> "0.01", admin_district |-> "Bromley",
     admin_county |-> NoneV, country |-> "England"]

ResB ==
    [latitude |-> "51.5", longitude |-> "0.02", admin_district |-> "Bexley",
     admin_county |-> Missing, country |-> "England"]

ResNoLat ==
    [latitude |-> Missing, longitude |-> "0.01", admin_district |-> "Bromley",
     admin_county |-> NoneV, country |-> "England"]

ResNullLat ==
    [latitude |-> NoneV, longitude |-> NoneV, admin_district |-> "Bromley",
     admin_county |-> NoneV, country |-> "England"]

\* What one GET can produce: raises is "request" when requests.get raises
\* (timeout, network), "json" when r.json() raises (malformed payload);
\* result is <<>> for a body without a result and <<res>> otherwise.
Response(raises, status_code, status, result) ==
    [raises |-> raises, status_code |-> status_code, status |-> status,
     result |-> result]

Responses ==
    { Response("none", 200, 200, <<ResA>>),
      Response("none", 200, 200, <<ResB>>),
      Response("none", 404, 404, <<>>),
      Response("none", 200, 200, <<>>),
      Response("none", 200, 200, <<ResNoLat>>),
      Response("request", 0, 0, <<>>),
      Response("json", 200, 0, <<>>) }

\* A result whose coordinates are null: a record without coordinates.
NullResponses == { Response("none", 200, 200, <<ResNullLat>>) }

\* dict.get(key, default)
DictGet(v, default) == IF v = Missing THEN default ELSE v

\* What a piece of code hands back: a value (val: <<>> for None, <<rec>>
\* for a record) or an exception on its way up (exc).
Returns(val) == [exc |-> FALSE, val |-> val]

Raises == [exc |-> TRUE, val |-> <<>>]

\* Lines 29-41, the body of the try block: requests.get can raise, r.json()
\* can raise, res["latitude"] and res["longitude"] raise KeyError on an
\* absent key; without a return the block falls through to line 44.
TryBlock(pcode, resp) ==
    IF resp.raises = "request" THEN Raises
    ELSE IF resp.status_code = 200
         THEN IF resp.raises = "json" THEN Raises
              ELSE IF resp.status = 200 /\ resp.result # <<>>
                   THEN LET res == resp.result[1]
                        IN IF res.latitude = Missing \/ res.longitude = Missing
                           THEN Raises
                           ELSE Returns(<< [postcode |-> pcode,
                                            latitude |-> res.latitude,
                                            longitude |-> res.longitude,
                                            admin_district |-> DictGet(res.admin_district, ""),
                                            admin_county |-> DictGet(res.admin_county, ""),
                                            country |-> DictGet(res.country, "")] >>)
                   ELSE Returns(<<>>)
         ELSE Returns(<<>>)

\* The function without its "except Exception: pass": what the try block
\* raises reaches the caller.
get_postcode_coordinates_NoExcept(postcode, resp) ==
    LET pcode == Upper(Strip(postcode))
    IN IF pcode = <<>> THEN Returns(<<>>) ELSE TryBlock(pcode, resp)

\* Lines 20-44: lines 24-26, the try block, and "except Exception: pass"
\* followed by "return None".
get_postcode_coordinates(postcode, resp) ==
    LET pcode == Upper(Strip(postcode))
    IN IF pcode = <<>> THEN Returns(<<>>)
       ELSE LET t == TryBlock(pcode, resp)
            IN IF t.exc THEN Returns(<<>>) ELSE t

\* ------------------------------------------------------------------------
\* The outfile: DataFrame.to_csv and pd.read_csv
\* ------------------------------------------------------------------------

\* to_csv writes None, NaN and the empty string as an empty cell.
ToCell(v) == IF v \in {NoneV, NaN, ""} THEN "" ELSE v

\* read_csv reads an empty cell as NaN.
FromCell(c) == IF c = "" THEN NaN ELSE c

\* The postcode cell: a key that holds a letter is read back as the same
\* string, an empty cell as a missing value.
FromKeyCell(c) == IF c = <<>> THEN NA ELSE c

\* One row of the DataFrame as written by to_csv (line 89).
CsvRow(rec) ==
    [postcode |-> rec.postcode,
     latitude |-> ToCell(rec.latitude),
     longitude |-> ToCell(rec.longitude),
     admin_district |-> ToCell(rec.admin_district),
     admin_county |-> ToCell(rec.admin_county),
     country |-> ToCell(rec.country)]

\* One row of the outfile as read by read_csv and rebuilt at lines 61-68.
ReadRow(row) ==
    [postcode |-> FromKeyCell(row.postcode),
     latitude |-> FromCell(row.latitude),
     longitude |-> FromCell(row.longitude),
     admin_district |-> FromCell(row.admin_district),
     admin_county |-> FromCell(row.admin_county),
     country |-> FromCell(row.country)]

\* The file does not exist.
NoFile == [exists |-> FALSE, hdr |-> FALSE, rows |-> <<>>]

\* open(outfile, "w"): the file exists and is empty.
Truncated == [exists |-> TRUE, hdr |-> FALSE, rows |-> <<>>]

\* d[k] = v on a dict modelled as a function.
DictSet(d, k, v) == [x \in DOMAIN d \cup {k} |-> IF x = k THEN v ELSE d[x]]

EmptyDict == [x \in {} |-> <<>>]

\* Lines 58-68: every row of the outfile is assigned into the lookup.
RECURSIVE MergeRows(_, _)
MergeRows(lookup, rows) ==
    IF rows = <<>> THEN lookup
    ELSE LET r == ReadRow(Head(rows))
         IN MergeRows(DictSet(lookup, r.postcode, r), Tail(rows))

\* The load left out: the outfile is never read back.
LoadOutfile_NotRead(lookup, file) == lookup

LoadOutfile(lookup, file) ==
    IF file.exists THEN MergeRows(lookup, file.rows) ELSE lookup

\* The keys that have a row in a file.
FileKeys(file) == {file.rows[n].postcode : n \in 1..Len(file.rows)}

\* The row of key k in a file that has one.
FileRow(file, k) ==
    file.rows[CHOOSE n \in 1..Len(file.rows) : file.rows[n].postcode = k]

\* ------------------------------------------------------------------------
\* Callers of geocode_unique_postcodes
\* ------------------------------------------------------------------------

RECURSIVE SeqsUpTo(_, _)
SeqsUpTo(S, n) ==
    IF n = 0 THEN {<<>>}
    ELSE LET shorter == SeqsUpTo(S, n - 1)
         IN shorter \cup {Append(s, x) : s \in {t \in shorter : Len(t) = n - 1}, x \in S}

PostcodeLists == SeqsUpTo(RawPostcodes, MaxPostcodes)

\* The keys a record can be cached under.
Keys == {Upper(Strip(p)) : p \in {q \in RawPostcodes : NotNa(q)}} \ {<<>>}

\* Records the service can have produced for a key.
ServiceRecords(k) ==
    {r[1] : r \in {get_postcode_coordinates(k, resp).val : resp \in Responses} \ {<<>>}}

\* existing_lookup as a caller passes it: None (an empty dict), or a dict
\* holding one record resolved earlier.
ExistingLookups ==
    {EmptyDict} \cup
    UNION {{DictSet(EmptyDict, k, r) : r \in ServiceRecords(k)} : k \in Keys}

\* ------------------------------------------------------------------------
\* data_pipeline.py: parsing of the donor columns
\* ------------------------------------------------------------------------

\* Longest donor table handed to _normalise_dataframes.
MaxRows == 2

\* Line 65: rows before this year are dropped.
MinYear == 2022

Digits == {"0", "1", "2", "3", "4", "5", "6", "7", "8", "9"}

UpperLetters == {"A", "B", "C", "I", "M", "N", "W", "X"}

DigitVal(c) == CharOrd(c) - 48

AllDigits(s) == \A n \in 1..Len(s) : s[n] \in Digits

\* The number a string of digits denotes.
RECURSIVE Num(_)
Num(s) == IF s = <<>> THEN 0 ELSE 10 * Num(SubSeq(s, 1, Len(s) - 1)) + DigitVal(s[Len(s)])

\* Series.astype(str): a missing value becomes the string "nan".
Str(v) == IF v = NA THEN <<"n", "a", "n">> ELSE v

\* NaT, and a month as <<year, month>>.
NaT == <<>>

\* Line 63: pd.to_datetime(format="%m/%Y", errors="coerce"): one or two
\* digits of a month 1..12, a slash, four digits of a year; anything else
\* is NaT.
ParseMonthYear(s) ==
    LET slashes == {n \in 1..Len(s) : s[n] = "/"}
    IN IF Cardinality(slashes) # 1 THEN NaT
       ELSE LET n == CHOOSE x \in slashes : TRUE
                mpart == SubSeq(s, 1, n - 1)
                ypart == SubSeq(s, n + 1, Len(s))
            IN IF /\ Len(mpart) \in {1, 2}
                  /\ AllDigits(mpart)
                  /\ Num(mpart) \in 1..12
                  /\ Len(ypart) = 4
                  /\ AllDigits(ypart)
               THEN <<Num(ypart), Num(mpart)>>
               ELSE NaT

\* Line 70: str.replace(r"[£,]", "", regex=True)
RemoveCurrency(s) == SelectSeq(s, LAMBDA c : c \notin {"£", ","})

\* Line 70: astype(float) on one string.  Amounts are counted in
\* hundredths and carry at most two decimals.  ok is FALSE where float()
\* raises ValueError; nan is TRUE for the string "nan".
ParseFloat(s) ==
    LET t == Strip(s)
        dots == {n \in 1..Len(t) : t[n] = "."}
        bad == [ok |-> FALSE, nan |-> FALSE, val |-> 0]
    IN IF t = <<"n", "a", "n">> THEN [ok |-> TRUE, nan |-> TRUE, val |-> 0]
       ELSE IF t = <<>> \/ Cardinality(dots) > 1 THEN bad
       ELSE LET n == IF dots = {} THEN Len(t) + 1 ELSE CHOOSE x \in dots : TRUE
                ipart == SubSeq(t, 1, n - 1)
                fpart == SubSeq(t, n + 1, Len(t))
            IN IF /\ AllDigits(ipart)
                  /\ AllDigits(fpart)
                  /\ Len(fpart) <= 2
                  /\ Len(ipart) + Len(fpart) > 0
               THEN [ok |-> TRUE, nan |-> FALSE,
                     val |-> 100 * Num(ipart)
                             + (IF Len(fpart) = 1 THEN 10 * Num(fpart) ELSE Num(fpart))]
               ELSE bad

\* Lines 69-71 on one value: the amount, 0 for NaN (fillna(0.0)).
DonationAmount(v) ==
    LET f == ParseFloat(RemoveCurrency(Str(v)))
    IN IF f.nan THEN 0 ELSE f.val

\* Line 88: str.extract(r"^([A-Z]{1,2})"): one or two leading capital
\* letters, NaN (NA) without one.
ExtractArea(s) ==
    IF Len(s) >= 2 /\ s[1] \in UpperLetters /\ s[2] \in UpperLetters THEN SubSeq(s, 1, 2)
    ELSE IF Len(s) >= 1 /\ s[1] \in UpperLetters THEN SubSeq(s, 1, 1)
    ELSE NA

\* Area_Income.py, line 44: re.match(r"^[A-Z]+", pc), the longest run of
\* capital letters at the start of pc, <<>> without one.
RECURSIVE MatchLetters(_)
MatchLetters(s) ==
    IF s # <<>> /\ Head(s) \in UpperLetters
    THEN <<Head(s)>> \o MatchLetters(Tail(s))
    ELSE <<>>

\* Area_Income.py, lines 33-45: None (NA) for a value that is no string
\* and for a string without a leading letter.
extract_prefix(postcode) ==
    IF postcode = NA THEN NA
    ELSE LET m == MatchLetters(Upper(Strip(postcode)))
         IN IF m # <<>> THEN m ELSE NA

\* str with every whitespace character removed (line 89, r"\s+").
RemoveWs(s) == SelectSeq(s, LAMBDA c : ~IsSpace(c))

\* ------------------------------------------------------------------------
\* data_pipeline.py: _normalise_dataframes on the donors table
\* ------------------------------------------------------------------------

\* One row of donation_events_geocoded.csv as read at lines 34-47, with
\* "Postcode" renamed to "postcode" (line 60).  Postcode, Month_Year,
\* Total_Amount, Donor_Type and Source are strings or NA; latitude,
\* longitude and country are opaque values or NaN.
DonorRow(my, p, ty, amt, src, lat, lon, ctry) ==
    [Month_Year |-> my, postcode |-> p, Donor_Type |-> ty, Total_Amount |-> amt,
     Source |-> src, latitude |-> lat, longitude |-> lon, country |-> ctry]

Mar24 == <<"0", "3", "/", "2", "0", "2", "4">>
Apr24 == <<"4", "/", "2", "0", "2", "4">>
Dec21 == <<"1", "2", "/", "2", "0", "2", "1">>
IsoMar24 == <<"2", "0", "2", "4", "/", "0", "3">>

\* Donor rows of the inputs: two rows of one postcode and month, a case
\* variant and a whitespace variant of that postcode, another month, a
\* month before 2022, a date in another format, a row without postcode,
\* amount and source, a row whose amount is no number, a row whose
\* postcode is all whitespace, and a row whose source has a leading blank.
DonorRows ==
    { DonorRow(Mar24, <<"A", "1">>, <<"I">>, <<"£", "1", "0", ".", "0", "0">>, <<"W">>,
               "51.4", "0.01", "England"),
      DonorRow(Mar24, <<"a", "1">>, <<"I">>, <<"5">>, <<"M">>, "51.4", "0.01", "England"),
      DonorRow(Mar24, <<" ", "A", "1", " ">>, <<"C">>, <<"1", ",", "0", "0", "0">>, <<"W">>,
               "51.4", "0.01", NaN),
      DonorRow(Apr24, <<"A", "1">>, <<"I">>, <<"2", ".", "5">>, <<" ">>, "51.4", "0.01", "England"),
      DonorRow(Dec21, <<"A", "1">>, <<"I">>, <<"7">>, <<"W">>, "51.4", "0.01", "England"),
      DonorRow(IsoMar24, <<"B", "2">>, <<"I">>, <<"3">>, <<"W">>, "51.5", "0.02", "England"),
      DonorRow(Mar24, NA, NA, NA, NA, NaN, NaN, NaN),
      DonorRow(Mar24, <<"B", "2">>, <<"I">>, <<"x">>, <<"M">>, "51.5", "0.02", "England"),
      DonorRow(Mar24, <<" ">>, <<"I">>, <<"4">>, <<"W">>, "51.4", "0.01", "England"),
      DonorRow(Mar24, <<"A", "1">>, <<"I">>, <<"6">>, <<" ", "M">>, "51.4", "0.01", "England") }

DonorTables == SeqsUpTo(DonorRows, MaxRows)

\* Nothing dropped for its date: a Month_Year that does not parse counts
\* as the first month of 2022.
ParseDates_Defaulted(d) ==
    [n \in 1..Len(d) |->
       LET dt == ParseMonthYear(Str(d[n].Month_Year))
           m == IF dt = NaT THEN <<MinYear, 1>> ELSE dt
       IN [Month_Year |-> Str(d[n].Month_Year),
           postcode |-> d[n].postcode,
           Donor_Type |-> d[n].Donor_Type,
           Total_Amount |-> d[n].Total_Amount,
           Source |-> d[n].Source,
           latitude |-> d[n].latitude,
           longitude |-> d[n].longitude,
           country |-> d[n].country,
           month_dt |-> m,
           year |-> m[1],
           month |-> m]]

\* Lines 62-67: Month_Year parsed, rows without a month or before 2022
\* dropped, year and month derived.  month, "YYYY-MM" in the code, is the
\* pair <<year, month>>.
ParseDates(d) ==
    LET dated == [n \in 1..Len(d) |->
                    [Month_Year |-> Str(d[n].Month_Year),
                     postcode |-> d[n].postcode,
                     Donor_Type |-> d[n].Donor_Type,
                     Total_Amount |-> d[n].Total_Amount,
                     Source |-> d[n].Source,
                     latitude |-> d[n].latitude,
                     longitude |-> d[n].longitude,
                     country |-> d[n].country,
                     month_dt |-> ParseMonthYear(Str(d[n].Month_Year))]]
        kept == SelectSeq(dated, LAMBDA r : r.month_dt # NaT /\ r.month_dt[1] >= MinYear)
    IN [n \in 1..Len(kept) |->
          [Month_Year |-> kept[n].Month_Year,
           postcode |-> kept[n].postcode,
           Donor_Type |-> kept[n].Donor_Type,
           Total_Amount |-> kept[n].Total_Amount,
           Source |-> kept[n].Source,
           latitude |-> kept[n].latitude,
           longitude |-> kept[n].longitude,
           country |-> kept[n].country,
           month_dt |-> kept[n].month_dt,
           year |-> kept[n].month_dt[1],
           month |-> kept[n].month_dt]]

\* Line 70 raises ValueError when astype(float) meets a string that is no
\* number.
AmountsRaise(d) ==
    \E n \in 1..Len(d) : ~ParseFloat(RemoveCurrency(Str(d[n].Total_Amount))).ok

\* Lines 84-94 on one postcode value.
CleanPostcode(p) == Strip(Str(p))

\* Lines 69-71 and 84-94 (_clean_postcodes on donors): the amount, the
\* stripped postcode, its area and its clean form, the country filled.
CleanRows(d) ==
    [n \in 1..Len(d) |->
       [postcode |-> CleanPostcode(d[n].postcode),
        postcode_area |-> ExtractArea(CleanPostcode(d[n].postcode)),
        postcode_clean |-> RemoveWs(Upper(CleanPostcode(d[n].postcode))),
        country |-> IF d[n].country = NaN THEN "Unknown" ELSE d[n].country,
        amount |-> DonationAmount(d[n].Total_Amount),
        Donor_Type |-> d[n].Donor_Type,
        Source |-> d[n].Source,
        latitude |-> d[n].latitude,
        longitude |-> d[n].longitude,
        month_dt |-> d[n].month_dt,
        year |-> d[n].year,
        month |-> d[n].month]]

\* Order of two months.
MonthLess(a, b) == a[1] < b[1] \/ (a[1] = b[1] /\ a[2] < b[2])

\* Order of two (postcode, month) keys, as groupby sorts them.
KeyLess(a, b) == StrLess(a[1], b[1]) \/ (a[1] = b[1] /\ MonthLess(a[2], b[2]))

RECURSIVE SortedKeys(_)
SortedKeys(S) ==
    IF S = {} THEN <<>>
    ELSE LET m == CHOOSE x \in S : \A y \in S \ {x} : KeyLess(x, y)
         IN <<m>> \o SortedKeys(S \ {m})

\* Line 116: the key a row is grouped under.
GroupKey(r) == <<r.postcode, r.month>>

GroupKeys(d) == {GroupKey(d[n]) : n \in 1..Len(d)}

\* The month left out of the grouping: the rows of one postcode.
Group_ByPostcode(d, key) == SelectSeq(d, LAMBDA r : r.postcode = key[1])

\* The rows of one group, in table order.
Group(d, key) == SelectSeq(d, LAMBDA r : GroupKey(r) = key)

\* "first" of a column of opaque values: the first that is not NaN.
RECURSIVE FirstValue(_)
FirstValue(vals) ==
    IF vals = <<>> THEN NaN
    ELSE IF Head(vals) # NaN THEN Head(vals) ELSE FirstValue(Tail(vals))

\* "first" of a column of strings: the first that is not missing.
RECURSIVE FirstString(_)
FirstString(vals) ==
    IF vals = <<>> THEN NA
    ELSE IF Head(vals) # NA THEN Head(vals) ELSE FirstString(Tail(vals))

\* The last value in place of the sum.
SumOf_Last(vals) == IF vals = <<>> THEN 0 ELSE vals[Len(vals)]

RECURSIVE SumOf(_)
SumOf(vals) == IF vals = <<>> THEN 0 ELSE Head(vals) + SumOf(Tail(vals))

\* "max" of a non-empty column of numbers.
MaxOf(vals) == CHOOSE x \in SeqRange(vals) : \A y \in SeqRange(vals) : y <= x

\* "max" of a non-empty column of months.
MaxMonth(vals) ==
    CHOOSE x \in SeqRange(vals) : \A y \in SeqRange(vals) : y = x \/ MonthLess(y, x)

\* Lines 107-114: the sorted distinct non-empty stripped values.
collect_sources(values) ==
    Sorted({Strip(values[n]) :
              n \in {m \in 1..Len(values) : values[m] # NA /\ Strip(values[m]) # <<>>}})

\* Lines 103-105: the same set, joined for display; <<>> stands for
\* "Unknown".
unique_join(values) ==
    Sorted({Strip(values[n]) :
              n \in {m \in 1..Len(values) : values[m] # NA /\ Strip(values[m]) # <<>>}})

\* The first source of the list whatever its length.
PrimarySource_First(vals) ==
    IF vals # <<>> THEN vals[1] ELSE <<"Unknown">>

\* Line 133: the one source, "Multiple" or "Unknown".
PrimarySource(vals) ==
    IF Len(vals) = 1 THEN vals[1]
    ELSE IF vals # <<>> THEN <<"Multiple">> ELSE <<"Unknown">>

\* Lines 116-133: one row of monthly, for one group.
MonthlyRow(key, g) ==
    LET rows == 1..Len(g)
        sources == collect_sources([n \in rows |-> g[n].Source])
    IN [postcode |-> key[1],
        month |-> key[2],
        latitude |-> FirstValue([n \in rows |-> g[n].latitude]),
        longitude |-> FirstValue([n \in rows |-> g[n].longitude]),
        country |-> FirstValue([n \in rows |-> g[n].country]),
        postcode_area |-> FirstString([n \in rows |-> g[n].postcode_area]),
        postcode_clean |-> FirstString([n \in rows |-> g[n].postcode_clean]),
        month_dt |-> MaxMonth([n \in rows |-> g[n].month_dt]),
        events_in_month |-> Len(g),
        donor_type |-> unique_join([n \in rows |-> g[n].Donor_Type]),
        source_list |-> sources,
        amount |-> SumOf([n \in rows |-> g[n].amount]),
        max_single_donation |-> MaxOf([n \in rows |-> g[n].amount]),
        Source |-> PrimarySource(sources)]

\* Lines 116-133: groupby(["postcode", "month"]).agg(...), one row for each
\* key, in key order.
GroupByMonth(d) ==
    LET keys == SortedKeys(GroupKeys(d))
    IN [n \in 1..Len(keys) |-> MonthlyRow(keys[n], Group(d, keys[n]))]

\* Lines 140-145: the located rows of monthly, the first one of each
\* postcode.
DonorsUnique(m) ==
    LET located == SelectSeq(m, LAMBDA r : r.latitude # NaN /\ r.longitude # NaN)
        firsts == {n \in 1..Len(located) :
                     \A k \in 1..(n - 1) : located[k].postcode # located[n].postcode}
    IN [n \in 1..Cardinality(firsts) |->
          LET at == CHOOSE x \in firsts : Cardinality({y \in firsts : y < x}) = n - 1
          IN [postcode |-> located[at].postcode,
              latitude |-> located[at].latitude,
              longitude |-> located[at].longitude,
              country |-> located[at].country,
              postcode_area |-> located[at].postcode_area]]

\* ------------------------------------------------------------------------
\* build_postcode_dataset.py: main, lines 97-175, on the donor events
\* ------------------------------------------------------------------------

\* Longest concatenated donor table handed to main.
MaxEvents == 2

\* Line 12.
DONOR_DATE_COLUMN == <<"D", "o", "n", "a", "t", "i", "o", "n", " ", "D", "a", "t", "e">>

PostcodeColumn == <<"P", "o", "s", "t", "c", "o", "d", "e">>

\* Header lines of the concatenated donor files: both columns, the
\* postcode column with outer blanks, the postcode column in lower case,
\* another date column, no postcode column.
ColumnSets ==
    { {PostcodeColumn, DONOR_DATE_COLUMN},
      {<<" ">> \o PostcodeColumn \o <<" ">>, DONOR_DATE_COLUMN},
      {<<"p", "o", "s", "t", "c", "o", "d", "e">>, DONOR_DATE_COLUMN},
      {PostcodeColumn, <<"D", "a", "t", "e">>},
      {DONOR_DATE_COLUMN} }

\* Line 123: every column name stripped.
StripColumns(cols) == {Strip(c) : c \in cols}

\* The schema check with both tests left out.
SchemaOk_Unchecked(cols) == TRUE

\* Lines 124-127: both required columns are there.
SchemaOk(cols) == PostcodeColumn \in cols /\ DONOR_DATE_COLUMN \in cols

\* Days of a month of a year.
DaysInMonth(y, m) ==
    IF m = 2
    THEN IF y % 4 = 0 /\ (y % 100 # 0 \/ y % 400 = 0) THEN 29 ELSE 28
    ELSE IF m \in {4, 6, 9, 11} THEN 30 ELSE 31

\* Lines 130-134: pd.to_datetime(dayfirst=True, errors="coerce") on one
\* stripped string: day, month and four digits of a year between slashes
\* give the date <<year, month, day>>; anything else the inputs hold is NaT.
ParseDayFirst(s) ==
    LET t == Strip(s)
        slashes == {n \in 1..Len(t) : t[n] = "/"}
    IN IF Cardinality(slashes) # 2 THEN NaT
       ELSE LET a == CHOOSE x \in slashes : \A y \in slashes : x <= y
                b == CHOOSE x \in slashes : \A y \in slashes : y <= x
                dpart == SubSeq(t, 1, a - 1)
                mpart == SubSeq(t, a + 1, b - 1)
                ypart == SubSeq(t, b + 1, Len(t))
            IN IF /\ Len(dpart) \in {1, 2} /\ AllDigits(dpart)
                  /\ Len(mpart) \in {1, 2} /\ AllDigits(mpart)
                  /\ Len(ypart) = 4 /\ AllDigits(ypart)
                  /\ Num(mpart) \in 1..12
                  /\ Num(dpart) \in 1..DaysInMonth(Num(ypart), Num(mpart))
               THEN <<Num(ypart), Num(mpart), Num(dpart)>>
               ELSE NaT

\* One row of the concatenated donor files: the postcode and the date
\* cell, strings or NA.
EventRow(p, d) == [Postcode |-> p, Date |-> d]

Day25Mar24 == <<"2", "5", "/", "0", "3", "/", "2", "0", "2", "4">>
Day3Apr24 == <<" ", "0", "3", "/", "0", "4", "/", "2", "0", "2", "4">>

\* Donation events of the inputs: an event, an event of a case and
\* whitespace variant of its postcode in another month, an event of
\* another postcode, an event without postcode, an event whose date is no
\* date and an event without date.
EventRows ==
    { EventRow(<<"A", "1">>, Day25Mar24),
      EventRow(<<" ", "a", "1", " ">>, Day3Apr24),
      EventRow(<<"B", "2">>, Day25Mar24),
      EventRow(NA, Day25Mar24),
      EventRow(<<"B", "2">>, <<"x">>),
      EventRow(<<"A", "1">>, NA) }

EventTables == SeqsUpTo(EventRows, MaxEvents)

\* Lines 130-137: the date parsed, the rows without a date dropped, the
\* month derived ("YYYY-MM" in the code, the pair <<year, month>> here).
MainDates(d) ==
    LET dated == [n \in 1..Len(d) |->
                    [Postcode |-> d[n].Postcode,
                     Date |-> d[n].Date,
                     date |-> ParseDayFirst(Str(d[n].Date))]]
        kept == SelectSeq(dated, LAMBDA r : r.date # NaT)
    IN [n \in 1..Len(kept) |->
          [Postcode |-> kept[n].Postcode,
           Date |-> kept[n].Date,
           date |-> kept[n].date,
           month |-> <<kept[n].date[1], kept[n].date[2]>>]]

\* Line 140: Series.dropna().drop_duplicates(), the first occurrence of
\* every value that is there, in table order.
DropNaDuplicates(vals) ==
    LET firsts == {n \in 1..Len(vals) :
                     vals[n] # NA /\ \A k \in 1..(n - 1) : vals[k] # vals[n]}
    IN [n \in 1..Cardinality(firsts) |->
          vals[CHOOSE x \in firsts : Cardinality({y \in firsts : y < x}) = n - 1]]

\* Line 151: set_index("postcode").to_dict(orient="index")
GeocodedLookup(df) ==
    [k \in {df[n].postcode : n \in 1..Len(df)} |->
       df[CHOOSE n \in 1..Len(df) : df[n].postcode = k]]

\* The postcode looked up as it is written in the event.
attach_coords_Raw(p, lookup) ==
    IF Str(p) \in DOMAIN lookup THEN <<lookup[Str(p)]>> ELSE <<>>

\* Lines 154-156: the record of the stripped, uppercased postcode, None
\* (<<>>) without one.
attach_coords(p, lookup) ==
    LET code == Upper(Strip(Str(p)))
    IN IF code \in DOMAIN lookup THEN <<lookup[code]>> ELSE <<>>

\* None or NaN, what dropna drops.
IsNull(v) == v \in {NoneV, NaN}

\* Lines 158-166: the coordinates and the place of its record on every
\* event, the events without latitude or longitude dropped.
DonorsEvents(d, lookup) ==
    LET merged == [n \in 1..Len(d) |->
                     LET x == attach_coords(d[n].Postcode, lookup)
                     IN [Postcode |-> d[n].Postcode,
                         Date |-> d[n].Date,
                         date |-> d[n].date,
                         month |-> d[n].month,
                         latitude |-> IF x # <<>> THEN x[1].latitude ELSE NoneV,
                         longitude |-> IF x # <<>> THEN x[1].longitude ELSE NoneV,
                         admin_district |-> IF x # <<>> THEN x[1].admin_district ELSE "",
                         admin_county |-> IF x # <<>> THEN x[1].admin_county ELSE "",
                         country |-> IF x # <<>> THEN x[1].country ELSE ""]]
    IN SelectSeq(merged, LAMBDA r : ~IsNull(r.latitude) /\ ~IsNull(r.longitude))

\* Line 169: one row of donor_events_geocoded.csv.
CsvEvent(r) ==
    [Postcode |-> r.Postcode,
     Date |-> r.Date,
     date |-> r.date,
     month |-> r.month,
     latitude |-> ToCell(r.latitude),
     longitude |-> ToCell(r.longitude),
     admin_district |-> ToCell(r.admin_district),
     admin_county |-> ToCell(r.admin_county),
     country |-> ToCell(r.country)]

\* The outfile a former run left: none, or the row of a code resolved then.
FormerOutfiles ==
    { NoFile,
      [exists |-> TRUE, hdr |-> TRUE,
       rows |-> << CsvRow([postcode |-> <<"A", "1">>, latitude |-> "51.4",
                           longitude |-> "0.01", admin_district |-> "Bromley",
                           admin_county |-> NoneV, country |-> "England"]) >>] }

\* donor_events_geocoded.csv: absent, or the events a former run wrote.
NoEvents == [exists |-> FALSE, rows |-> <<>>]

FormerEvents ==
    { NoEvents,
      [exists |-> TRUE,
       rows |-> << CsvEvent([Postcode |-> <<"A", "1">>, Date |-> Day25Mar24,
                             date |-> <<2024, 3, 25>>, month |-> <<2024, 3>>,
                             latitude |-> "51.4", longitude |-> "0.01",
                             admin_district |-> "Bromley", admin_county |-> NoneV,
                             country |-> "England"]) >>] }

\* ------------------------------------------------------------------------
\* data_pipeline.py: the cache files of write_cache and load_processed_data
\* ------------------------------------------------------------------------

\* Number of versions the raw input files go through.
MaxVersions == 2

\* Lines 19-25: the keys of CACHE_FILES, in the order of the dict.
CacheKeys == <<"patients", "donors_unique", "donor_events", "shops", "area_income">>

\* A cache file: absent; open for writing with part of the dataset in it;
\* or whole.  data is the version of the raw inputs it was built from.
Absent == [exists |-> FALSE, whole |-> FALSE, data |-> 0]

Partial(v) == [exists |-> TRUE, whole |-> FALSE, data |-> v]

Whole(v) == [exists |-> TRUE, whole |-> TRUE, data |-> v]

\* The cache directory without a file (line 9).
EmptyCache == [n \in 1..Len(CacheKeys) |-> Absent]

\* The force flag ignored: a rebuild only for a missing file.
MustRebuild_IgnoreForce(force, files) == \E n \in 1..Len(CacheKeys) : ~files[n].exists

\* Line 231, negated: force_rebuild, or a cache file that does not exist.
MustRebuild(force, files) == force \/ \E n \in 1..Len(CacheKeys) : ~files[n].exists

\* ------------------------------------------------------------------------
\* DonerFlexData.py: DonationDataProcessor
\* ------------------------------------------------------------------------

\* The longest file list of a call of process_multiple_files.
MaxFiles == 2

\* The number of runs of the script in one behaviour.
MaxRuns == 2

\* What can be at a path of the file list: no file; a file
\* process_excel_file raises on (no Excel file, or one without the
\* Donation Date column); or an export, whose rows hold the date,
\* postcode, donor type, donor number, source and application cells
\* (strings or NA) and the amount in hundredths.  The first export has two
\* donations of one month, postcode and donor type, the postcode once with
\* a leading blank; the second a donation of another month and postcode
\* without source and one of the key of the first export; the third a
\* donation whose date is no date, one whose postcode is blank and whose
\* donor number is missing, and one without postcode.
SourceFiles ==
    LET Row(d, p, ty, amt, no, src, app) ==
            [Donation_Date |-> d, Postcode |-> p, Donor_Type |-> ty,
             Donation_Amount |-> amt, Donor_No |-> no, Source |-> src,
             Application |-> app]
    IN { [kind |-> "missing", rows |-> <<>>],
         [kind |-> "raises", rows |-> <<>>],
         [kind |-> "table",
          rows |-> << Row(Day25Mar24, <<" ", "A", "1">>, <<"I">>, 1000, <<"1">>, <<"W">>, <<"X">>),
                      Row(Day25Mar24, <<"A", "1">>, <<"I">>, 500, <<"2">>, <<"M">>, <<"X">>) >>],
         [kind |-> "table",
          rows |-> << Row(Day3Apr24, <<"B", "2">>, <<"C">>, 250, <<"3">>, NA, NA),
                      Row(Day25Mar24, <<"A", "1">>, <<"I">>, 200, <<"1">>, <<"M">>, <<"X">>) >>],
         [kind |-> "table",
          rows |-> << Row(<<"x">>, <<"A", "1">>, <<"I">>, 700, <<"4">>, <<"W">>, <<"X">>),
                      Row(Day25Mar24, <<" ", " ">>, <<"I">>, 300, NA, <<"W">>, <<"X">>),
                      Row(Day25Mar24, NA, <<"I">>, 400, <<"5">>, <<"W">>, <<"X">>) >>] }

\* The key of the groupby of lines 54 and 82-83.
ResultKey(r) == <<r.Month_Year, r.Postcode, r.Donor_Type>>

\* groupby drops the rows with a missing value in a key column.
KeyComplete(k) == \A n \in 1..3 : k[n] # NA

\* The keys of a groupby, sorted column by column as strings (lines 54
\* and 94-96).
RECURSIVE SortedResultKeys(_)
SortedResultKeys(S) ==
    LET Less(a, b) ==
            \/ StrLess(a[1], b[1])
            \/ a[1] = b[1] /\ StrLess(a[2], b[2])
            \/ a[1] = b[1] /\ a[2] = b[2] /\ StrLess(a[3], b[3])
    IN IF S = {} THEN <<>>
       ELSE LET k == CHOOSE x \in S : \A y \in S \ {x} : Less(x, y)
            IN <<k>> \o SortedResultKeys(S \ {k})

\* Lines 42-69: process_excel_file on the rows of an export.  Line 48
\* writes a date <<year, month, day>> with strftime('%m/%Y'), NaT as a
\* missing value.  The amounts of a group are summed, the donor numbers
\* that are not missing counted, the first source and application that are
\* not missing kept.
process_excel_file(rows) ==
    LET DigitChar(n) == CHOOSE c \in Digits : DigitVal(c) = n
        FormatMonthYear(d) ==
            IF d = NaT THEN NA
            ELSE << DigitChar(d[2] \div 10), DigitChar(d[2] % 10), "/",
                    DigitChar(d[1] \div 1000), DigitChar((d[1] \div 100) % 10),
                    DigitChar((d[1] \div 10) % 10), DigitChar(d[1] % 10) >>
        df == [n \in 1..Len(rows) |->
                 [Month_Year |-> FormatMonthYear(ParseDayFirst(Str(rows[n].Donation_Date))),
                  Postcode |-> IF rows[n].Postcode = NA THEN NA ELSE Strip(rows[n].Postcode),
                  Donor_Type |-> rows[n].Donor_Type,
                  Donation_Amount |-> rows[n].Donation_Amount,
                  Donor_No |-> rows[n].Donor_No,
                  Source |-> rows[n].Source,
                  Application |-> rows[n].Application]]
        kept == SelectSeq(df, LAMBDA r : KeyComplete(ResultKey(r)))
        keys == SortedResultKeys({ResultKey(kept[n]) : n \in 1..Len(kept)})
    IN [k \in 1..Len(keys) |->
          LET g == SelectSeq(kept, LAMBDA r : ResultKey(r) = keys[k])
          IN [Month_Year |-> keys[k][1],
              Postcode |-> keys[k][2],
              Donor_Type |-> keys[k][3],
              Total_Amount |-> SumOf([n \in 1..Len(g) |-> g[n].Donation_Amount]),
              Number_of_Donors |-> Len(SelectSeq(g, LAMBDA r : r.Donor_No # NA)),
              Source |-> FirstString([n \in 1..Len(g) |-> g[n].Source]),
              Application |-> FirstString([n \in 1..Len(g) |-> g[n].Application])]]

\* The rows of the new data in place of the rows of their keys, no sum.
merge_with_results_Overwrite(results, new_data) ==
    LET combined == results \o new_data
        kept == SelectSeq(combined, LAMBDA r : KeyComplete(ResultKey(r)))
        keys == SortedResultKeys({ResultKey(kept[n]) : n \in 1..Len(kept)})
    IN [k \in 1..Len(keys) |->
          LET g == SelectSeq(kept, LAMBDA r : ResultKey(r) = keys[k])
          IN g[Len(g)]]

\* Lines 79-96: merge_with_results, from self.results_df and new_data to
\* the new self.results_df.
merge_with_results(results, new_data) ==
    LET combined == results \o new_data
        kept == SelectSeq(combined, LAMBDA r : KeyComplete(ResultKey(r)))
        keys == SortedResultKeys({ResultKey(kept[n]) : n \in 1..Len(kept)})
    IN [k \in 1..Len(keys) |->
          LET g == SelectSeq(kept, LAMBDA r : ResultKey(r) = keys[k])
          IN [Month_Year |-> keys[k][1],
              Postcode |-> keys[k][2],
              Donor_Type |-> keys[k][3],
              Total_Amount |-> SumOf([n \in 1..Len(g) |-> g[n].Total_Amount]),
              Number_of_Donors |-> SumOf([n \in 1..Len(g) |-> g[n].Number_of_Donors]),
              Source |-> FirstString([n \in 1..Len(g) |-> g[n].Source]),
              Application |-> FirstString([n \in 1..Len(g) |-> g[n].Application])]]

\* Lines 17-27: _load_or_create_results.  read_csv reads an empty cell as
\* a missing value; the keys of the inputs hold a letter or a slash, so
\* they are read back as strings.
load_or_create_results(file) ==
    LET Value(c) == IF c = <<>> THEN NA ELSE c
    IN IF file.exists
       THEN [n \in 1..Len(file.rows) |->
               [Month_Year |-> Value(file.rows[n].Month_Year),
                Postcode |-> Value(file.rows[n].Postcode),
                Donor_Type |-> Value(file.rows[n].Donor_Type),
                Total_Amount |-> file.rows[n].Total_Amount,
                Number_of_Donors |-> file.rows[n].Number_of_Donors,
                Source |-> Value(file.rows[n].Source),
                Application |-> Value(file.rows[n].Application)]]
       ELSE <<>>

\* ------------------------------------------------------------------------
\* State
\* ------------------------------------------------------------------------

VARIABLES
    pc,               \* where geocode_unique_postcodes stands: idle (not
                      \* running), loop, sleep, write, done, crashed
    outcome,          \* how the previous call ended: none, returned,
                      \* crashed, raised
    outfile,          \* the file at the path outfile
    arg_lookup,       \* the existing_lookup argument as it was passed
    existing_lookup,  \* the dict existing_lookup
    postcodes,        \* the sorted list of line 71
    i,                \* number of codes the loop has finished
    results,          \* the list results
    calls,            \* codes get_postcode_coordinates was called for, in order
    failed,           \* codes whose lookup returned None in this call
    file0,            \* the outfile as it was when the call started
    prevFailed,       \* failed of the previous call, if that call returned
    prevPostcodes,    \* postcodes of the previous call, if that call returned
    npc,              \* where _normalise_dataframes stands: off, raw, dated,
                      \* clean, monthly, done, raised
    raw_donors,       \* the donors table as _load_raw_csvs returned it
    donors,           \* the donors table
    monthly,          \* the monthly table
    donors_unique,    \* the donors_unique table
    mpc,              \* where main stands: off, start, concat, dated, done,
                      \* returned, raised
    columns,          \* the column names of donors_raw
    donors_raw,       \* the table donors_raw
    merr,             \* the exception main ended with
    events_file,      \* the file donor_events_geocoded.csv
    outfile0,         \* the outfile as it was when main started
    events0,          \* donor_events_geocoded.csv as it was when main started
    cpc,              \* where load_processed_data stands: off, idle, read,
                      \* build, write, returned, raised, crashed
    force_rebuild,    \* the argument force_rebuild
    raw_files,        \* the raw input files: there or not, and their version
    cache_files,      \* the files of CACHE_FILES, by position in CacheKeys
    datasets,         \* the dict datasets: the version it was built from
    key,              \* position of the loop of line 224 in CacheKeys
    ret,              \* the tuple returned: the version of each dataset
    cache0,           \* the cache files as they were when the call started
    raw_read,         \* the call has read raw input
    written,          \* positions of the cache files the call has opened
    ran_write_cache,  \* the call has entered write_cache
    dpc,              \* where the DonationDataProcessor script stands: off,
                      \* new (no processor yet), ready, loop, saved
    file_list,        \* the files at the paths of the file list
    results_csv,      \* the results CSV
    results_df,       \* self.results_df
    fidx,             \* position of the loop of line 111 in the file list
    loaded,           \* results_df as the constructor set it
    merged,           \* the new_data of every merge_with_results since then
    processed,        \* positions of the files merged in this call
    saves,            \* calls of save_results in this call
    runs              \* runs of the script so far

gvars ==
    <<pc, outcome, outfile, arg_lookup, existing_lookup, postcodes, i,
      results, calls, failed, file0, prevFailed, prevPostcodes>>

nvars == <<npc, raw_donors, donors, monthly, donors_unique>>

mvars == <<mpc, columns, donors_raw, merr, events_file, outfile0, events0>>

cvars ==
    <<cpc, force_rebuild, raw_files, cache_files, datasets, key, ret, cache0,
      raw_read, written, ran_write_cache>>

dvars ==
    <<dpc, file_list, results_csv, results_df, fidx, loaded, merged, processed,
      saves, runs>>

vars == <<gvars, nvars, mvars, cvars, dvars>>

\* _normalise_dataframes is not running.
NormOff ==
    /\ npc = "off"
    /\ raw_donors = <<>>
    /\ donors = <<>>
    /\ monthly = <<>>
    /\ donors_unique = <<>>

\* No call of load_processed_data under way: its locals.
CacheLocals ==
    /\ force_rebuild = FALSE
    /\ datasets = 0
    /\ key = 0
    /\ ret = <<>>
    /\ cache0 = EmptyCache
    /\ raw_read = FALSE
    /\ written = {}
    /\ ran_write_cache = FALSE

\* load_processed_data is not part of the run.
CacheOff ==
    /\ cpc = "off"
    /\ raw_files = [exists |-> FALSE, version |-> 0]
    /\ cache_files = EmptyCache
    /\ CacheLocals

\* The DonationDataProcessor script is not part of the run.
ProcessorOff ==
    /\ dpc = "off"
    /\ file_list = <<>>
    /\ results_csv = [exists |-> FALSE, rows |-> <<>>]
    /\ results_df = <<>>
    /\ fidx = 0
    /\ loaded = <<>>
    /\ merged = <<>>
    /\ processed = <<>>
    /\ saves = 0
    /\ runs = 0

\* main is not running.
MainOff ==
    /\ mpc = "off"
    /\ columns = {}
    /\ donors_raw = <<>>
    /\ merr = "none"
    /\ events_file = NoEvents
    /\ outfile0 = NoFile
    /\ events0 = NoEvents

GeoInit ==
    /\ pc = "idle"
    /\ outcome = "none"
    /\ outfile = NoFile
    /\ arg_lookup = EmptyDict
    /\ existing_lookup = EmptyDict
    /\ postcodes = <<>>
    /\ i = 0
    /\ results = <<>>
    /\ calls = <<>>
    /\ failed = {}
    /\ file0 = NoFile
    /\ prevFailed = {}
    /\ prevPostcodes = <<>>

\* ------------------------------------------------------------------------
\* geocode_unique_postcodes, lines 47-94, one action per step
\* ------------------------------------------------------------------------

\* Lines 51-71: the call, the load of the outfile into the lookup and the
\* normalisation of the postcodes.
Call(ps, lk) ==
    /\ pc = "idle"
    /\ outfile.exists => outfile.hdr
    /\ pc' = "loop"
    /\ arg_lookup' = lk
    /\ existing_lookup' = LoadOutfile(lk, outfile)
    /\ postcodes' = NormalisePostcodes(ps)
    /\ i' = 0
    /\ results' = <<>>
    /\ calls' = <<>>
    /\ failed' = {}
    /\ file0' = outfile
    /\ UNCHANGED <<outcome, outfile, prevFailed, prevPostcodes>>
    /\ UNCHANGED <<nvars, mvars, cvars, dvars>>

\* Line 59 on a file without a header line (a write that was interrupted
\* right after the file was opened): read_csv raises EmptyDataError and
\* the call ends there.
CallRaises ==
    /\ pc = "idle"
    /\ outfile.exists /\ ~outfile.hdr
    /\ outcome' = "raised"
    /\ prevFailed' = {}
    /\ prevPostcodes' = <<>>
    /\ UNCHANGED <<pc, outfile, arg_lookup, existing_lookup, postcodes, i,
                   results, calls, failed, file0>>
    /\ UNCHANGED <<nvars, mvars, cvars, dvars>>

\* The membership test always negative: every code is resolved again.
InLookup_Never(code, lookup) == FALSE

\* Line 77: pc in existing_lookup
InLookup(code, lookup) == code \in DOMAIN lookup

\* Lines 77-79: the code is in the lookup, its record is reused.
Reuse ==
    /\ pc = "loop"
    /\ i < Len(postcodes)
    /\ InLookup(postcodes[i + 1], existing_lookup)
    /\ results' = Append(results, existing_lookup[postcodes[i + 1]])
    /\ i' = i + 1
    /\ UNCHANGED <<pc, outcome, outfile, arg_lookup, existing_lookup,
                   postcodes, calls, failed, file0, prevFailed, prevPostcodes>>
    /\ UNCHANGED <<nvars, mvars, cvars, dvars>>

\* A failed lookup leaves a row without coordinates in results.
AppendResult_Marker(res, code, rec) ==
    IF rec # <<>> THEN Append(res, rec[1])
    ELSE Append(res, [postcode |-> code, latitude |-> NoneV, longitude |-> NoneV,
                      admin_district |-> "", admin_county |-> "", country |-> ""])

\* Lines 82-83: a record is appended to results, None is not.
AppendResult(res, code, rec) == IF rec # <<>> THEN Append(res, rec[1]) ELSE res

\* Lines 82 and 84: a record is stored in the lookup, None is not.
StoreResult(lookup, code, rec) ==
    IF rec # <<>> THEN DictSet(lookup, code, rec[1]) ELSE lookup

\* The lookup without the sleep of line 85: the loop goes straight to the
\* next code.
Lookup_NoSleep(resp) ==
    /\ pc = "loop"
    /\ i < Len(postcodes)
    /\ ~InLookup(postcodes[i + 1], existing_lookup)
    /\ LET code == postcodes[i + 1]
           r == get_postcode_coordinates(code, resp)
       IN /\ calls' = Append(calls, code)
          /\ results' = AppendResult(results, code, r.val)
          /\ existing_lookup' = StoreResult(existing_lookup, code, r.val)
          /\ failed' = IF r.val = <<>> THEN failed \cup {code} ELSE failed
    /\ i' = i + 1
    /\ UNCHANGED <<pc, outcome, outfile, arg_lookup, postcodes, file0, prevFailed,
                   prevPostcodes>>
    /\ UNCHANGED <<nvars, mvars, cvars, dvars>>

\* Lines 81-84: the code is not in the lookup, the service is asked.  An
\* exception out of get_postcode_coordinates would end the call (aborted).
Lookup(resp) ==
    /\ pc = "loop"
    /\ i < Len(postcodes)
    /\ ~InLookup(postcodes[i + 1], existing_lookup)
    /\ LET code == postcodes[i + 1]
           r == get_postcode_coordinates(code, resp)
       IN /\ calls' = Append(calls, code)
          /\ IF r.exc
             THEN /\ pc' = "aborted"
                  /\ UNCHANGED <<results, existing_lookup, failed>>
             ELSE /\ pc' = "sleep"
                  /\ results' = AppendResult(results, code, r.val)
                  /\ existing_lookup' = StoreResult(existing_lookup, code, r.val)
                  /\ failed' = IF r.val = <<>> THEN failed \cup {code} ELSE failed
    /\ UNCHANGED <<outcome, outfile, arg_lookup, postcodes, i, file0, prevFailed,
                   prevPostcodes>>
    /\ UNCHANGED <<nvars, mvars, cvars, dvars>>

\* Line 85: time.sleep(polite_delay), then the next code.
Sleep ==
    /\ pc = "sleep"
    /\ pc' = "loop"
    /\ i' = i + 1
    /\ UNCHANGED <<outcome, outfile, arg_lookup, existing_lookup, postcodes,
                   results, calls, failed, file0, prevFailed, prevPostcodes>>
    /\ UNCHANGED <<nvars, mvars, cvars, dvars>>

\* Lines 87-92 and 94 when results is empty: nothing is written.
ReturnEmpty ==
    /\ pc = "loop"
    /\ i = Len(postcodes)
    /\ results = <<>>
    /\ pc' = "done"
    /\ UNCHANGED <<outcome, outfile, arg_lookup, existing_lookup, postcodes, i,
                   results, calls, failed, file0, prevFailed, prevPostcodes>>
    /\ UNCHANGED <<nvars, mvars, cvars, dvars>>

\* Line 89, first step: to_csv opens the outfile for writing, which
\* truncates it.
OpenOutfile ==
    /\ pc = "loop"
    /\ i = Len(postcodes)
    /\ results # <<>>
    /\ outfile' = Truncated
    /\ pc' = "write"
    /\ UNCHANGED <<outcome, arg_lookup, existing_lookup, postcodes, i, results,
                   calls, failed, file0, prevFailed, prevPostcodes>>
    /\ UNCHANGED <<nvars, mvars, cvars, dvars>>

\* Line 89, next steps: the header line, then one row of results at a time
\* (what is on disk when the write is interrupted is a prefix of the file,
\* taken here at line boundaries).
WriteChunk ==
    /\ pc = "write"
    /\ \/ /\ ~outfile.hdr
          /\ outfile' = [outfile EXCEPT !.hdr = TRUE]
       \/ /\ outfile.hdr
          /\ Len(outfile.rows) < Len(results)
          /\ outfile' = [outfile EXCEPT
                           !.rows = Append(@, CsvRow(results[Len(outfile.rows) + 1]))]
    /\ UNCHANGED <<pc, outcome, arg_lookup, existing_lookup, postcodes, i,
                   results, calls, failed, file0, prevFailed, prevPostcodes>>
    /\ UNCHANGED <<nvars, mvars, cvars, dvars>>

\* Lines 90 and 94: the file is complete, the call returns.
Return ==
    /\ pc = "write"
    /\ outfile.hdr
    /\ Len(outfile.rows) = Len(results)
    /\ pc' = "done"
    /\ UNCHANGED <<outcome, outfile, arg_lookup, existing_lookup, postcodes, i,
                   results, calls, failed, file0, prevFailed, prevPostcodes>>
    /\ UNCHANGED <<nvars, mvars, cvars, dvars>>

\* The process is interrupted (killed) while the call runs; the outfile
\* stays as it is on disk.
Crash ==
    /\ pc \in {"loop", "sleep", "write"}
    /\ pc' = "crashed"
    /\ UNCHANGED <<outcome, outfile, arg_lookup, existing_lookup, postcodes, i,
                   results, calls, failed, file0, prevFailed, prevPostcodes>>
    /\ UNCHANGED <<nvars, mvars, cvars, dvars>>

\* The call is over: its locals are gone, the outfile is what remains.
Exit ==
    /\ pc \in {"done", "crashed", "aborted"}
    /\ pc' = "idle"
    /\ outcome' = CASE pc = "done" -> "returned"
                     [] pc = "crashed" -> "crashed"
                     [] OTHER -> "raised"
    /\ prevFailed' = IF pc = "done" THEN failed ELSE {}
    /\ prevPostcodes' = IF pc = "done" THEN postcodes ELSE <<>>
    /\ arg_lookup' = EmptyDict
    /\ existing_lookup' = EmptyDict
    /\ postcodes' = <<>>
    /\ i' = 0
    /\ results' = <<>>
    /\ calls' = <<>>
    /\ failed' = {}
    /\ file0' = NoFile
    /\ UNCHANGED outfile
    /\ UNCHANGED <<nvars, mvars, cvars, dvars>>

GeoNext ==
    \/ \E ps \in PostcodeLists, lk \in ExistingLookups : Call(ps, lk)
    \/ CallRaises
    \/ Reuse
    \/ \E resp \in Responses : Lookup(resp)
    \/ Sleep
    \/ ReturnEmpty
    \/ OpenOutfile
    \/ WriteChunk
    \/ Return
    \/ Crash
    \/ Exit

Init == GeoInit /\ NormOff /\ MainOff /\ CacheOff /\ ProcessorOff

Next == GeoNext

\* Calls of geocode_unique_postcodes on one outfile, one after the other,
\* each of which may be interrupted.
Spec == Init /\ [][Next]_vars

\* ------------------------------------------------------------------------
\* _normalise_dataframes, lines 55-147, on every donors table
\* ------------------------------------------------------------------------

NormInit ==
    /\ npc = "raw"
    /\ raw_donors \in DonorTables
    /\ donors = raw_donors
    /\ monthly = <<>>
    /\ donors_unique = <<>>

\* Lines 62-67.
NormDates ==
    /\ npc = "raw"
    /\ donors' = ParseDates(donors)
    /\ npc' = "dated"
    /\ UNCHANGED <<raw_donors, monthly, donors_unique, gvars, mvars, cvars, dvars>>

\* Lines 69-71 and 84-101.
NormClean ==
    /\ npc = "dated"
    /\ ~AmountsRaise(donors)
    /\ donors' = CleanRows(donors)
    /\ npc' = "clean"
    /\ UNCHANGED <<raw_donors, monthly, donors_unique, gvars, mvars, cvars, dvars>>

\* Line 70 raises ValueError: the function ends there.
NormRaises ==
    /\ npc = "dated"
    /\ AmountsRaise(donors)
    /\ npc' = "raised"
    /\ UNCHANGED <<raw_donors, donors, monthly, donors_unique, gvars, mvars, cvars, dvars>>

\* Lines 116-133.
NormGroupBy ==
    /\ npc = "clean"
    /\ monthly' = GroupByMonth(donors)
    /\ npc' = "monthly"
    /\ UNCHANGED <<raw_donors, donors, donors_unique, gvars, mvars, cvars, dvars>>

\* Lines 140-147.
NormUnique ==
    /\ npc = "monthly"
    /\ donors_unique' = DonorsUnique(monthly)
    /\ npc' = "done"
    /\ UNCHANGED <<raw_donors, donors, monthly, gvars, mvars, cvars, dvars>>

NormNext ==
    \/ NormDates
    \/ NormClean
    \/ NormRaises
    \/ NormGroupBy
    \/ NormUnique

InitNorm == GeoInit /\ NormInit /\ MainOff /\ CacheOff /\ ProcessorOff

\* _normalise_dataframes applied to every donors table of the bounds.
SpecNorm == InitNorm /\ [][NormNext]_vars

\* ------------------------------------------------------------------------
\* main, lines 97-175, one action per step, on every donor table and on
\* the files a former run left
\* ------------------------------------------------------------------------

InitMain ==
    /\ NormOff
    /\ CacheOff
    /\ ProcessorOff
    /\ pc = "idle"
    /\ outcome = "none"
    /\ outfile \in FormerOutfiles
    /\ arg_lookup = EmptyDict
    /\ existing_lookup = EmptyDict
    /\ postcodes = <<>>
    /\ i = 0
    /\ results = <<>>
    /\ calls = <<>>
    /\ failed = {}
    /\ file0 = NoFile
    /\ prevFailed = {}
    /\ prevPostcodes = <<>>
    /\ mpc = "start"
    /\ columns = {}
    /\ donors_raw = <<>>
    /\ merr = "none"
    /\ events_file \in FormerEvents
    /\ outfile0 = outfile
    /\ events0 = events_file

\* Lines 108-118: none of the donor files exists, main returns.
MainNoFiles ==
    /\ mpc = "start"
    /\ mpc' = "returned"
    /\ UNCHANGED <<columns, donors_raw, merr, events_file, outfile0, events0>>
    /\ UNCHANGED <<gvars, nvars, cvars, dvars>>

\* Lines 108-123: the donor files read and concatenated, the column names
\* stripped.
MainConcat(cols, table) ==
    /\ mpc = "start"
    /\ columns' = StripColumns(cols)
    /\ donors_raw' = table
    /\ mpc' = "concat"
    /\ UNCHANGED <<merr, events_file, outfile0, events0>>
    /\ UNCHANGED <<gvars, nvars, cvars, dvars>>

\* Lines 124-127: a required column is not there, main raises ValueError.
MainSchemaError ==
    /\ mpc = "concat"
    /\ ~SchemaOk(columns)
    /\ mpc' = "raised"
    /\ merr' = "ValueError"
    /\ UNCHANGED <<columns, donors_raw, events_file, outfile0, events0>>
    /\ UNCHANGED <<gvars, nvars, cvars, dvars>>

\* Lines 130-137.
MainParseDates ==
    /\ mpc = "concat"
    /\ SchemaOk(columns)
    /\ donors_raw' = MainDates(donors_raw)
    /\ mpc' = "dated"
    /\ UNCHANGED <<columns, merr, events_file, outfile0, events0>>
    /\ UNCHANGED <<gvars, nvars, cvars, dvars>>

\* Lines 140-144: geocode_unique_postcodes is called on the distinct
\* postcodes, without existing_lookup.
MainGeocode ==
    /\ mpc = "dated"
    /\ Call(DropNaDuplicates([n \in 1..Len(donors_raw) |-> donors_raw[n].Postcode]),
            EmptyDict)

\* Lines 147-149: donors_geocoded, the DataFrame of results, is empty.
MainNoGeocoded ==
    /\ mpc = "dated"
    /\ pc = "done"
    /\ results = <<>>
    /\ mpc' = "returned"
    /\ UNCHANGED <<columns, donors_raw, merr, events_file, outfile0, events0>>
    /\ UNCHANGED <<gvars, nvars, cvars, dvars>>

\* Lines 151-170: the events with the coordinates of donors_geocoded, the
\* DataFrame of results, written to donor_events_geocoded.csv.
MainEvents ==
    /\ mpc = "dated"
    /\ pc = "done"
    /\ results # <<>>
    /\ LET donors_events == DonorsEvents(donors_raw, GeocodedLookup(results))
       IN events_file' =
             [exists |-> TRUE,
              rows |-> [n \in 1..Len(donors_events) |-> CsvEvent(donors_events[n])]]
    /\ mpc' = "done"
    /\ UNCHANGED <<columns, donors_raw, merr, outfile0, events0>>
    /\ UNCHANGED <<gvars, nvars, cvars, dvars>>

MainNext ==
    \/ MainNoFiles
    \/ \E cols \in ColumnSets, table \in EventTables : MainConcat(cols, table)
    \/ MainSchemaError
    \/ MainParseDates
    \/ MainGeocode
    \/ Reuse
    \/ \E resp \in Responses \cup NullResponses : Lookup(resp)
    \/ Sleep
    \/ ReturnEmpty
    \/ OpenOutfile
    \/ WriteChunk
    \/ Return
    \/ MainNoGeocoded
    \/ MainEvents

\* One run of main.
SpecMain == InitMain /\ [][MainNext]_vars

\* ------------------------------------------------------------------------
\* load_processed_data and write_cache, lines 211-233, one action per step,
\* called again and again while the raw inputs change
\* ------------------------------------------------------------------------

InitCache ==
    /\ GeoInit
    /\ NormOff
    /\ MainOff
    /\ ProcessorOff
    /\ cpc = "idle"
    /\ raw_files = [exists |-> TRUE, version |-> 1]
    /\ cache_files = EmptyCache
    /\ CacheLocals

\* Between two calls the raw input files are replaced by a new version.
RawChange ==
    /\ cpc = "idle"
    /\ raw_files.version < MaxVersions
    /\ raw_files' = [exists |-> TRUE, version |-> raw_files.version + 1]
    /\ UNCHANGED <<cpc, force_rebuild, cache_files, datasets, key, ret, cache0,
                   raw_read, written, ran_write_cache>>
    /\ UNCHANGED <<gvars, nvars, mvars, dvars>>

\* Between two calls a raw input file is removed.
RawRemove ==
    /\ cpc = "idle"
    /\ raw_files.exists
    /\ raw_files' = [raw_files EXCEPT !.exists = FALSE]
    /\ UNCHANGED <<cpc, force_rebuild, cache_files, datasets, key, ret, cache0,
                   raw_read, written, ran_write_cache>>
    /\ UNCHANGED <<gvars, nvars, mvars, dvars>>

\* Lines 229-233: the call and the test of line 231.
LoadCall(force) ==
    /\ cpc = "idle"
    /\ force_rebuild' = force
    /\ cache0' = cache_files
    /\ IF MustRebuild(force, cache_files)
       THEN cpc' = "build" /\ ran_write_cache' = TRUE
       ELSE cpc' = "read" /\ ran_write_cache' = FALSE
    /\ UNCHANGED <<raw_files, cache_files, datasets, key, ret, raw_read, written>>
    /\ UNCHANGED <<gvars, nvars, mvars, dvars>>

\* Line 232: every cache file is read and the tuple returned.
ReadCache ==
    /\ cpc = "read"
    /\ \A n \in 1..Len(CacheKeys) : cache_files[n].whole
    /\ ret' = <<[n \in 1..Len(CacheKeys) |-> cache_files[n].data]>>
    /\ cpc' = "returned"
    /\ UNCHANGED <<force_rebuild, raw_files, cache_files, datasets, key, cache0,
                   raw_read, written, ran_write_cache>>
    /\ UNCHANGED <<gvars, nvars, mvars, dvars>>

\* Line 232 on a file that is not a whole Parquet file: read_parquet
\* raises.
ReadCacheRaises ==
    /\ cpc = "read"
    /\ \E n \in 1..Len(CacheKeys) : ~cache_files[n].whole
    /\ cpc' = "raised"
    /\ UNCHANGED <<force_rebuild, raw_files, cache_files, datasets, key, ret,
                   cache0, raw_read, written, ran_write_cache>>
    /\ UNCHANGED <<gvars, nvars, mvars, dvars>>

\* Lines 213-222: the datasets are built from the raw inputs.
Build ==
    /\ cpc = "build"
    /\ raw_files.exists
    /\ raw_read' = TRUE
    /\ datasets' = raw_files.version
    /\ key' = 1
    /\ cpc' = "write"
    /\ UNCHANGED <<force_rebuild, raw_files, cache_files, ret, cache0, written,
                   ran_write_cache>>
    /\ UNCHANGED <<gvars, nvars, mvars, dvars>>

\* Line 213 without a raw input file: read_csv raises FileNotFoundError,
\* which write_cache and load_processed_data pass on.
BuildRaises ==
    /\ cpc = "build"
    /\ ~raw_files.exists
    /\ raw_read' = TRUE
    /\ cpc' = "raised"
    /\ UNCHANGED <<force_rebuild, raw_files, cache_files, datasets, key, ret,
                   cache0, written, ran_write_cache>>
    /\ UNCHANGED <<gvars, nvars, mvars, dvars>>

\* Line 225, first step: to_parquet opens the cache file for writing, in
\* place, and starts to write.
OpenCacheFile ==
    /\ cpc = "write"
    /\ key <= Len(CacheKeys)
    /\ key \notin written
    /\ cache_files' = [cache_files EXCEPT ![key] = Partial(datasets)]
    /\ written' = written \cup {key}
    /\ UNCHANGED <<cpc, force_rebuild, raw_files, datasets, key, ret, cache0,
                   raw_read, ran_write_cache>>
    /\ UNCHANGED <<gvars, nvars, mvars, dvars>>

\* Line 225, last step: the file is complete and closed; the loop goes on.
CloseCacheFile ==
    /\ cpc = "write"
    /\ key \in written
    /\ cache_files' = [cache_files EXCEPT ![key] = Whole(datasets)]
    /\ key' = key + 1
    /\ UNCHANGED <<cpc, force_rebuild, raw_files, datasets, ret, cache0,
                   raw_read, written, ran_write_cache>>
    /\ UNCHANGED <<gvars, nvars, mvars, dvars>>

\* Line 225 fails while it writes (the disk is full): the exception leaves
\* write_cache and load_processed_data.
ToParquetRaises ==
    /\ cpc = "write"
    /\ key \in written
    /\ cpc' = "raised"
    /\ UNCHANGED <<force_rebuild, raw_files, cache_files, datasets, key, ret,
                   cache0, raw_read, written, ran_write_cache>>
    /\ UNCHANGED <<gvars, nvars, mvars, dvars>>

\* Lines 226 and 233: the datasets are returned.
WriteReturn ==
    /\ cpc = "write"
    /\ key = Len(CacheKeys) + 1
    /\ ret' = <<[n \in 1..Len(CacheKeys) |-> datasets]>>
    /\ cpc' = "returned"
    /\ UNCHANGED <<force_rebuild, raw_files, cache_files, datasets, key, cache0,
                   raw_read, written, ran_write_cache>>
    /\ UNCHANGED <<gvars, nvars, mvars, dvars>>

\* The process is interrupted (killed) while the call runs; the files stay
\* as they are on disk.
CacheCrash ==
    /\ cpc \in {"read", "build", "write"}
    /\ cpc' = "crashed"
    /\ UNCHANGED <<force_rebuild, raw_files, cache_files, datasets, key, ret,
                   cache0, raw_read, written, ran_write_cache>>
    /\ UNCHANGED <<gvars, nvars, mvars, dvars>>

\* The call is over: its locals are gone, the files are what remains.
CacheExit ==
    /\ cpc \in {"returned", "raised", "crashed"}
    /\ cpc' = "idle"
    /\ force_rebuild' = FALSE
    /\ datasets' = 0
    /\ key' = 0
    /\ ret' = <<>>
    /\ cache0' = EmptyCache
    /\ raw_read' = FALSE
    /\ written' = {}
    /\ ran_write_cache' = FALSE
    /\ UNCHANGED <<raw_files, cache_files>>
    /\ UNCHANGED <<gvars, nvars, mvars, dvars>>

CacheNext ==
    \/ RawChange
    \/ RawRemove
    \/ \E force \in BOOLEAN : LoadCall(force)
    \/ ReadCache
    \/ ReadCacheRaises
    \/ Build
    \/ BuildRaises
    \/ OpenCacheFile
    \/ CloseCacheFile
    \/ ToParquetRaises
    \/ WriteReturn
    \/ CacheCrash
    \/ CacheExit

\* Calls of load_processed_data on one cache directory, one after the
\* other, each of which may fail or be interrupted.
SpecCache == InitCache /\ [][CacheNext]_vars

\* ------------------------------------------------------------------------
\* DonationDataProcessor: the constructor and process_multiple_files, one
\* action per step, on one results CSV and one file list
\* ------------------------------------------------------------------------

InitProcessor ==
    /\ GeoInit
    /\ NormOff
    /\ MainOff
    /\ CacheOff
    /\ dpc = "new"
    /\ file_list \in SeqsUpTo(SourceFiles, MaxFiles)
    /\ results_csv = [exists |-> FALSE, rows |-> <<>>]
    /\ results_df = <<>>
    /\ fidx = 0
    /\ loaded = <<>>
    /\ merged = <<>>
    /\ processed = <<>>
    /\ saves = 0
    /\ runs = 0

\* Lines 7-27: a new process builds the processor; results_df is read from
\* the results CSV if there is one.
Construct ==
    /\ dpc = "new"
    /\ results_df' = load_or_create_results(results_csv)
    /\ loaded' = load_or_create_results(results_csv)
    /\ merged' = <<>>
    /\ dpc' = "ready"
    /\ UNCHANGED <<file_list, results_csv, fidx, processed, saves, runs>>
    /\ UNCHANGED <<gvars, nvars, mvars, cvars>>

\* Line 104: process_multiple_files is called with the file list.
ProcessMultipleFiles ==
    /\ dpc = "ready"
    /\ runs < MaxRuns
    /\ runs' = runs + 1
    /\ fidx' = 1
    /\ processed' = <<>>
    /\ saves' = 0
    /\ dpc' = "loop"
    /\ UNCHANGED <<file_list, results_csv, results_df, loaded, merged>>
    /\ UNCHANGED <<gvars, nvars, mvars, cvars>>

\* Lines 112-114: the file does not exist.
FileNotFound ==
    /\ dpc = "loop"
    /\ fidx <= Len(file_list)
    /\ file_list[fidx].kind = "missing"
    /\ fidx' = fidx + 1
    /\ UNCHANGED <<dpc, file_list, results_csv, results_df, loaded, merged,
                   processed, saves, runs>>
    /\ UNCHANGED <<gvars, nvars, mvars, cvars>>

\* An exception that ends the loop: the files left are passed over.
FileRaises_EndLoop ==
    /\ dpc = "loop"
    /\ fidx <= Len(file_list)
    /\ file_list[fidx].kind = "raises"
    /\ fidx' = Len(file_list) + 1
    /\ UNCHANGED <<dpc, file_list, results_csv, results_df, loaded, merged,
                   processed, saves, runs>>
    /\ UNCHANGED <<gvars, nvars, mvars, cvars>>

\* Lines 116-121: process_excel_file raises; the exception is caught and
\* printed.
FileRaises ==
    /\ dpc = "loop"
    /\ fidx <= Len(file_list)
    /\ file_list[fidx].kind = "raises"
    /\ fidx' = fidx + 1
    /\ UNCHANGED <<dpc, file_list, results_csv, results_df, loaded, merged,
                   processed, saves, runs>>
    /\ UNCHANGED <<gvars, nvars, mvars, cvars>>

\* Lines 116-119: the file is processed and merged.
FileMerged ==
    /\ dpc = "loop"
    /\ fidx <= Len(file_list)
    /\ file_list[fidx].kind = "table"
    /\ results_df' = merge_with_results(results_df, process_excel_file(file_list[fidx].rows))
    /\ merged' = Append(merged, process_excel_file(file_list[fidx].rows))
    /\ processed' = Append(processed, fidx)
    /\ fidx' = fidx + 1
    /\ UNCHANGED <<dpc, file_list, results_csv, loaded, saves, runs>>
    /\ UNCHANGED <<gvars, nvars, mvars, cvars>>

\* Lines 123 and 98-102: save_results after the loop.  to_csv writes a
\* missing value and the empty string both as an empty cell and the
\* numbers in full.
SaveResults ==
    /\ dpc = "loop"
    /\ fidx = Len(file_list) + 1
    /\ results_csv' =
          LET Cell(v) == IF v = NA THEN <<>> ELSE v
          IN [exists |-> TRUE,
              rows |-> [n \in 1..Len(results_df) |->
                          [Month_Year |-> Cell(results_df[n].Month_Year),
                           Postcode |-> Cell(results_df[n].Postcode),
                           Donor_Type |-> Cell(results_df[n].Donor_Type),
                           Total_Amount |-> results_df[n].Total_Amount,
                           Number_of_Donors |-> results_df[n].Number_of_Donors,
                           Source |-> Cell(results_df[n].Source),
                           Application |-> Cell(results_df[n].Application)]]]
    /\ saves' = saves + 1
    /\ dpc' = "saved"
    /\ UNCHANGED <<file_list, results_df, fidx, loaded, merged, processed, runs>>
    /\ UNCHANGED <<gvars, nvars, mvars, cvars>>

\* The process ends; the results CSV is what remains.
ProcessorExit ==
    /\ dpc = "saved"
    /\ dpc' = "new"
    /\ results_df' = <<>>
    /\ fidx' = 0
    /\ loaded' = <<>>
    /\ merged' = <<>>
    /\ processed' = <<>>
    /\ saves' = 0
    /\ UNCHANGED <<file_list, results_csv, runs>>
    /\ UNCHANGED <<gvars, nvars, mvars, cvars>>

ProcessorNext ==
    \/ Construct
    \/ ProcessMultipleFiles
    \/ FileNotFound
    \/ FileRaises
    \/ FileMerged
    \/ SaveResults
    \/ ProcessorExit

\* Runs of the script on one directory, one after the other, over the
\* same file list.
SpecProcessor == InitProcessor /\ [][ProcessorNext]_vars

\* ------------------------------------------------------------------------
\* Properties of the geocode cache
\* ------------------------------------------------------------------------

\* The lookup as it is once the outfile was loaded into it (line 68).
Loaded == LoadOutfile(arg_lookup, file0)

\* The call is under way or has just ended.
InCall == pc \in {"loop", "sleep", "write", "done", "crashed", "aborted"}

\* Every row of file a is in file b, unchanged.
RowsKept(a, b) ==
    \A k \in FileKeys(a) : k \in FileKeys(b) /\ FileRow(b, k) = FileRow(a, k)

\* Two postcodes differ at most in letter case and whitespace.
SameCode(p, q) == RemoveWs(Upper(p)) = RemoveWs(Upper(q))

\* Responses that are a failed lookup: an exception, a non-200 response, a
\* payload without a usable result.
IsFailure(resp) ==
    \/ resp.raises # "none"
    \/ resp.status_code # 200
    \/ resp.status # 200
    \/ resp.result = <<>>
    \/ resp.result[1].latitude = Missing
    \/ resp.result[1].longitude = Missing

\* C1: when a call returns after a call that returned, every row the outfile
\* had before the call is still in the outfile, unchanged.
C1_CacheMonotone ==
    (pc = "done" /\ outcome = "returned") => RowsKept(file0, outfile)

\* C2: a call with the same postcode set as the previous call, which
\* returned and left every code of the set in the outfile, issues no call
\* to get_postcode_coordinates.
C2_SecondRunNoLookups ==
    ( /\ InCall
      /\ outcome = "returned"
      /\ postcodes = prevPostcodes
      /\ SeqRange(postcodes) \subseteq FileKeys(file0) )
    => calls = <<>>

\* A call that returns after a returned call with the same two codes, both
\* reused from the outfile.
C2_Witness ==
    /\ pc = "done"
    /\ outcome = "returned"
    /\ postcodes = prevPostcodes
    /\ Len(postcodes) = 2
    /\ SeqRange(postcodes) \subseteq FileKeys(file0)
    /\ Len(results) = 2
    /\ calls = <<>>

\* Two records hold the same data: they are written to a file as the same
\* row (None, NaN and "" all stand for a value that is not there).
SameRecord(a, b) == CsvRow(a) = CsvRow(b)

\* C3: a key that is in existing_lookup when the function is called maps to
\* the same record for the rest of the call.
C3_ExistingRecordsWin ==
    InCall =>
        \A k \in DOMAIN arg_lookup :
            /\ k \in DOMAIN existing_lookup
            /\ SameRecord(existing_lookup[k], arg_lookup[k])

\* C4: get_postcode_coordinates is called only for codes of the input set
\* that are absent from the lookup after the load, and at most once for
\* each code.
C4_LookupsOnlyForAbsentOnce ==
    /\ \A n \in 1..Len(calls) :
          calls[n] \in SeqRange(postcodes) /\ calls[n] \notin DOMAIN Loaded
    /\ \A m, n \in 1..Len(calls) : calls[m] = calls[n] => m = n

\* A returned call of two codes, one reused from the lookup and one
\* looked up.
C4_Witness ==
    /\ pc = "done"
    /\ Len(postcodes) = 2
    /\ Len(calls) = 1
    /\ Len(results) = 2

\* C5: get_postcode_coordinates returns None and raises nothing for every
\* failed lookup, no call is ended by an exception of a lookup, and a call
\* that returns has processed every code of the batch.
C5_FailedLookupNeverAborts ==
    /\ \A resp \in Responses, k \in Keys :
          IsFailure(resp) => get_postcode_coordinates(k, resp) = Returns(<<>>)
    /\ pc # "aborted"
    /\ pc = "done" =>
          /\ i = Len(postcodes)
          /\ \A c \in SeqRange(postcodes) :
                c \in SeqRange(calls) \/ c \in DOMAIN Loaded

\* A returned call whose first lookup failed and whose second lookup, made
\* after it, resolved.
C5_Witness ==
    /\ pc = "done"
    /\ Len(calls) = 2
    /\ calls[1] \in failed
    /\ calls[2] \notin failed
    /\ Len(results) = 1

\* C6: a code whose lookup failed has no record in the lookup and no row in
\* the outfile, and the next call whose set contains it (and whose caller
\* passes no record for it) calls get_postcode_coordinates for it again.
C6_FailedCodeRetried ==
    /\ \A c \in failed :
          c \notin DOMAIN existing_lookup /\ c \notin FileKeys(outfile)
    /\ pc = "done" =>
          \A c \in prevFailed :
              (c \in SeqRange(postcodes) /\ c \notin DOMAIN arg_lookup)
                  => c \in SeqRange(calls)

\* A returned call that looked up codes that had failed in the previous
\* call: one resolved this time, one failed again.
C6_Witness ==
    /\ pc = "done"
    /\ \E c \in prevFailed : c \in SeqRange(calls) /\ c \notin failed
    /\ \E c \in prevFailed : c \in failed

\* C7: when a call is interrupted, every row the outfile had before the call
\* is still in the outfile, unchanged.
C7_CrashKeepsExistingRows ==
    pc = "crashed" => RowsKept(file0, outfile)

\* C8: when a call is interrupted, every code it resolved before the
\* interruption has a row in the outfile.
C8_PartialProgressSurvives ==
    pc = "crashed" => \A c \in SeqRange(calls) \ failed : c \in FileKeys(outfile)

\* C9: postcodes that differ only in letter case or whitespace cause at most
\* one external lookup in a call and at most one row in the outfile.
C9_CanonicalKey ==
    /\ \A m, n \in 1..Len(calls) : SameCode(calls[m], calls[n]) => m = n
    /\ \A m, n \in 1..Len(outfile.rows) :
          SameCode(outfile.rows[m].postcode, outfile.rows[n].postcode) => m = n

\* C20: every call of get_postcode_coordinates, resolved or failed, is made
\* from the loop and followed by the sleep of line 85, and nothing but the
\* end of that sleep (or the end of the process) follows: no call is
\* issued before the sleep after the previous call is over.
C20_SleepAfterEveryLookup ==
    [][ /\ Len(calls') > Len(calls) =>
              /\ pc = "loop"
              /\ pc' = "sleep"
              /\ Len(calls') = Len(calls) + 1
        /\ pc = "sleep" =>
              /\ calls' = calls
              /\ pc' \in {"loop", "crashed"}
              /\ pc' = "loop" => i' = i + 1 ]_vars

\* The loop after two lookups of one call, the first failed, the second
\* resolved, each followed by its sleep.
C20_Witness ==
    /\ pc = "loop"
    /\ i = 2
    /\ Len(calls) = 2
    /\ calls[1] \in failed
    /\ calls[2] \notin failed

\* C21: the postcode values of the rows of the outfile are pairwise
\* distinct, whatever calls were made and wherever a write stands.
C21_OutfileKeysDistinct ==
    \A m, n \in 1..Len(outfile.rows) :
        outfile.rows[m].postcode = outfile.rows[n].postcode => m = n

\* A call that returned after a call that returned, with two rows in the
\* outfile, one reused from the outfile and one looked up.
C21_Witness ==
    /\ pc = "done"
    /\ outcome = "returned"
    /\ Len(outfile.rows) = 2
    /\ Len(calls) = 1
    /\ file0.exists

\* C22: once a call has written the outfile, the lookup the next call
\* rebuilds from it (lines 58-68) maps the postcode of every record that
\* was written to that record, field by field.
C22_CacheRoundTrip ==
    (pc = "done" /\ results # <<>>) =>
        LET rebuilt == LoadOutfile(EmptyDict, outfile)
        IN /\ DOMAIN rebuilt = {results[n].postcode : n \in 1..Len(results)}
           /\ \A n \in 1..Len(results) : rebuilt[results[n].postcode] = results[n]

\* C23: the codes get_postcode_coordinates is called for in one call of
\* geocode_unique_postcodes come in strictly ascending order of Python's
\* string comparison, and so does the list the loop runs through; the
\* order is that of the set of codes, not of the input.
C23_LookupsAscending ==
    /\ \A m, n \in 1..Len(calls) : m < n => StrLess(calls[m], calls[n])
    /\ \A m, n \in 1..Len(postcodes) : m < n => StrLess(postcodes[m], postcodes[n])

\* A returned call that looked up two codes, the smaller one first.
C23_Witness ==
    /\ pc = "done"
    /\ Len(calls) = 2
    /\ calls[1] # calls[2]
    /\ StrLess(calls[1], calls[2])

\* ------------------------------------------------------------------------
\* Properties of the normalisation and the monthly aggregate
\* ------------------------------------------------------------------------

\* The donor rows of the month of row r whose postcode differs from the
\* postcode of r at most in letter case and whitespace.
SameEvents(r) ==
    SelectSeq(donors, LAMBDA e : e.month = r.month /\ SameCode(e.postcode, r.postcode))

\* The rows of monthly for the month and the postcode of row r, whatever
\* its letter case and whitespace.
MonthlyRowsOf(r) ==
    {m \in 1..Len(monthly) :
        monthly[m].month = r.month /\ SameCode(monthly[m].postcode, r.postcode)}

\* C10: the events of one month whose postcodes differ only in letter case
\* or whitespace are one row of monthly, with the sum of their amounts,
\* their number and their largest amount.
C10_VariantsAggregated ==
    npc = "done" =>
        \A n \in 1..Len(donors) :
            /\ Cardinality(MonthlyRowsOf(donors[n])) = 1
            /\ \A m \in MonthlyRowsOf(donors[n]) :
                  LET events == SameEvents(donors[n])
                      amounts == [k \in 1..Len(events) |-> events[k].amount]
                  IN /\ monthly[m].amount = SumOf(amounts)
                     /\ monthly[m].events_in_month = Len(amounts)
                     /\ monthly[m].max_single_donation = MaxOf(amounts)

\* A postcode value that is missing, empty or all whitespace.
NoPostcode(p) == p = NA \/ Strip(p) = <<>>

\* The rows of the input whose month parses and is kept (lines 62-65) and
\* whose postcode is there, as (stripped postcode, month) pairs, in table
\* order.
RealEvents ==
    LET dated == ParseDates(raw_donors)
        real == SelectSeq(dated, LAMBDA r : ~NoPostcode(r.postcode))
    IN [n \in 1..Len(real) |-> <<Strip(real[n].postcode), real[n].month>>]

\* C11: a donor row whose postcode is missing, empty or all whitespace is
\* in no row of monthly and of donors_unique: every row of these tables
\* carries the postcode of an input row that has one, and counts only such
\* input rows.
C11_NoPostcodeRowsDropped ==
    npc = "done" =>
        /\ \A m \in 1..Len(monthly) :
              /\ \E n \in 1..Len(raw_donors) :
                    /\ ~NoPostcode(raw_donors[n].postcode)
                    /\ Strip(raw_donors[n].postcode) = monthly[m].postcode
              /\ monthly[m].events_in_month =
                    Cardinality({n \in 1..Len(RealEvents) :
                                   RealEvents[n] = <<monthly[m].postcode, monthly[m].month>>})
        /\ \A u \in 1..Len(donors_unique) :
              \E n \in 1..Len(raw_donors) :
                  /\ ~NoPostcode(raw_donors[n].postcode)
                  /\ Strip(raw_donors[n].postcode) = donors_unique[u].postcode

\* An amount value that is no number once the currency sign and the commas
\* are removed: a missing value, or a string float() does not accept.
Unparsable(v) ==
    LET f == ParseFloat(RemoveCurrency(Str(v)))
    IN ~f.ok \/ f.nan

\* C12: the normalisation never raises on an amount, and every dated row
\* whose amount is no number is kept, with amount 0.
C12_UnparsableAmountZero ==
    /\ npc # "raised"
    /\ npc \in {"clean", "monthly", "done"} =>
          LET dated == ParseDates(raw_donors)
          IN /\ Len(donors) = Len(dated)
             /\ \A n \in 1..Len(dated) :
                   Unparsable(dated[n].Total_Amount) => donors[n].amount = 0

\* The month of an input row, NaT when its Month_Year does not parse.
MonthOf(r) == ParseMonthYear(Str(r.Month_Year))

\* The input rows whose Month_Year parses to a month from 2022 on, in
\* table order.
DatedRows ==
    SelectSeq(raw_donors, LAMBDA r : MonthOf(r) # NaT /\ MonthOf(r)[1] >= MinYear)

\* C13: a row whose date does not parse is in no table and no month is
\* made up for it.  After lines 62-67 donors holds the rows whose
\* Month_Year parsed (from 2022 on), each under its own month; every row
\* of monthly counts only such rows of its month; and for every donor
\* table of main, the rows left after lines 130-137 are the rows whose
\* date parsed, each under the month of its date.
C13_UnparsableDatesDropped ==
    /\ npc \in {"dated", "clean", "monthly", "done", "raised"} =>
          /\ Len(donors) = Len(DatedRows)
          /\ \A n \in 1..Len(donors) : donors[n].month = MonthOf(DatedRows[n])
    /\ npc \in {"monthly", "done"} =>
          \A m \in 1..Len(monthly) :
              monthly[m].events_in_month =
                  Cardinality({n \in 1..Len(DatedRows) :
                                 /\ MonthOf(DatedRows[n]) = monthly[m].month
                                 /\ Strip(Str(DatedRows[n].postcode)) = monthly[m].postcode})
    /\ \A t \in EventTables :
          LET parsed == SelectSeq(t, LAMBDA r : ParseDayFirst(Str(r.Date)) # NaT)
              out == MainDates(t)
          IN /\ Len(out) = Len(parsed)
             /\ \A n \in 1..Len(out) :
                   /\ out[n].Postcode = parsed[n].Postcode
                   /\ out[n].Date = parsed[n].Date
                   /\ out[n].month = SubSeq(ParseDayFirst(Str(parsed[n].Date)), 1, 2)

\* A table of two rows, one with a Month_Year that does not parse: the
\* other row alone makes up monthly.
C13_Witness ==
    /\ npc = "done"
    /\ Len(raw_donors) = 2
    /\ \E n \in 1..2 : MonthOf(raw_donors[n]) = NaT
    /\ Len(monthly) = 1
    /\ monthly[1].events_in_month = 1

\* The positions in donors of the normalised events of one postcode and
\* month.
EventsOf(p, m) ==
    {n \in 1..Len(donors) : donors[n].postcode = p /\ donors[n].month = m}

\* The sum of the amounts of the events at the positions S.
RECURSIVE AmountOf(_)
AmountOf(S) ==
    IF S = {} THEN 0
    ELSE LET n == CHOOSE x \in S : TRUE
         IN donors[n].amount + AmountOf(S \ {n})

\* C14: monthly has exactly one row for every (postcode, month) pair of the
\* normalised events and no other row; the amount of the row is the sum of
\* the amounts of the events of the pair, its largest single amount is the
\* largest of them and its event count is their number.
C14_MonthlyReductions ==
    npc \in {"monthly", "done"} =>
        /\ \A n \in 1..Len(donors) :
              Cardinality({m \in 1..Len(monthly) :
                             /\ monthly[m].postcode = donors[n].postcode
                             /\ monthly[m].month = donors[n].month}) = 1
        /\ \A m \in 1..Len(monthly) :
              LET S == EventsOf(monthly[m].postcode, monthly[m].month)
              IN /\ S # {}
                 /\ monthly[m].amount = AmountOf(S)
                 /\ monthly[m].events_in_month = Cardinality(S)
                 /\ \E n \in S : donors[n].amount = monthly[m].max_single_donation
                 /\ \A n \in S : donors[n].amount <= monthly[m].max_single_donation

\* Two events of one postcode and month with different amounts, summed
\* into one row of monthly.
C14_Witness ==
    /\ npc = "done"
    /\ Len(donors) = 2
    /\ Len(monthly) = 1
    /\ monthly[1].events_in_month = 2
    /\ monthly[1].max_single_donation > 0
    /\ monthly[1].amount > monthly[1].max_single_donation

\* C15: the groupby gives the same monthly table for every order of the
\* rows of the normalised donors table.
C15_OrderIndependent ==
    npc \in {"monthly", "done"} =>
        \A perm \in Permutations(1..Len(donors)) :
            GroupByMonth([n \in 1..Len(donors) |-> donors[perm[n]]]) = monthly

\* ------------------------------------------------------------------------
\* Properties of the cache files
\* ------------------------------------------------------------------------

\* A call of load_processed_data is under way or has just ended.
InLoad == cpc \in {"read", "build", "write", "returned", "raised", "crashed"}

AllKeys == 1..Len(CacheKeys)

\* C16: a call enters write_cache exactly when force_rebuild is set or a
\* cache file was missing when it started.  A call that does not, reads no
\* raw input, opens no cache file for writing, leaves every cache file as
\* it was and, the files being whole, returns their content.  A call with
\* force_rebuild set that returns has written every cache file anew, with
\* the datasets it returns.
C16_CacheDecision ==
    InLoad =>
        /\ ran_write_cache <=>
              (force_rebuild \/ \E n \in AllKeys : ~cache0[n].exists)
        /\ ~ran_write_cache =>
              /\ ~raw_read
              /\ written = {}
              /\ cache_files = cache0
              /\ cpc = "returned" => ret = <<[n \in AllKeys |-> cache0[n].data]>>
              /\ (\A n \in AllKeys : cache0[n].whole) => cpc # "raised"
        /\ (force_rebuild /\ cpc = "returned") =>
              /\ raw_read
              /\ written = AllKeys
              /\ \A n \in AllKeys : cache_files[n] = Whole(raw_files.version)
              /\ ret = <<[n \in AllKeys |-> raw_files.version]>>

\* A call without force_rebuild that returns the files of an older
\* version of the raw inputs, as they are.
C16_Witness ==
    /\ cpc = "returned"
    /\ ~force_rebuild
    /\ ~ran_write_cache
    /\ raw_files.version = 2
    /\ ret = <<[n \in AllKeys |-> 1]>>

\* C17: after a call that failed or was interrupted, every cache file is
\* absent, as it was before the call, or whole with the new dataset.
C17_NoHalfWrittenFile ==
    cpc \in {"raised", "crashed"} =>
        \A n \in AllKeys :
            \/ ~cache_files[n].exists
            \/ cache_files[n] = cache0[n]
            \/ cache_files[n] = Whole(datasets)

\* C29: the datasets a call returns from the cache files it found (a call
\* that did not enter write_cache) were all built from one version of the
\* raw inputs.
C29_OneBuildPerHit ==
    (cpc = "returned" /\ ~ran_write_cache) =>
        \A m, n \in AllKeys : ret[1][m] = ret[1][n]

\* ------------------------------------------------------------------------
\* Properties of main
\* ------------------------------------------------------------------------

\* The trimmed, uppercased postcode of an event.
CodeOf(e) == Upper(Strip(Str(e.Postcode)))

\* The codes whose row in the outfile has a latitude and a longitude.
LocatedCodes ==
    {k \in FileKeys(outfile) :
        FileRow(outfile, k).latitude # "" /\ FileRow(outfile, k).longitude # ""}

\* The dated events whose code has a row with coordinates in the outfile,
\* in table order.
LocatedEvents == SelectSeq(donors_raw, LAMBDA e : CodeOf(e) \in LocatedCodes)

\* C18: the events file main writes holds the dated events whose trimmed,
\* uppercased postcode has a row with latitude and longitude in the
\* outfile, and no other; each carries the latitude and the longitude of
\* that row.
C18_EventsCarryCacheRecord ==
    mpc = "done" =>
        /\ events_file.exists
        /\ Len(events_file.rows) = Len(LocatedEvents)
        /\ \A n \in 1..Len(events_file.rows) :
              LET row == events_file.rows[n]
                  rec == FileRow(outfile, CodeOf(LocatedEvents[n]))
              IN /\ row.Postcode = LocatedEvents[n].Postcode
                 /\ row.Date = LocatedEvents[n].Date
                 /\ row.month = LocatedEvents[n].month
                 /\ row.latitude = rec.latitude
                 /\ row.longitude = rec.longitude

\* Two dated events: one written ' a1 ', in the events file with the
\* coordinates of the row of A1; one of B2, whose row has no coordinates,
\* left out.
C18_Witness ==
    /\ mpc = "done"
    /\ Len(donors_raw) = 2
    /\ Len(events_file.rows) = 1
    /\ events_file.rows[1].Postcode = <<" ", "a", "1", " ">>
    /\ events_file.rows[1].latitude = "51.5"
    /\ <<"B", "2">> \in FileKeys(outfile) \ LocatedCodes

\* C19: when the concatenated donor table lacks the 'Postcode' column or
\* the date column, main goes no further than the check and raises
\* ValueError: no lookup is issued, geocode_unique_postcodes is not called,
\* and the outfile and the events file are as they were.  main raises
\* ValueError only then.
C19_SchemaErrorNoSideEffect ==
    LET lacks == PostcodeColumn \notin columns \/ DONOR_DATE_COLUMN \notin columns
    IN /\ (columns # {} /\ lacks) =>
             /\ mpc \in {"concat", "raised"}
             /\ pc = "idle"
             /\ calls = <<>>
             /\ outfile = outfile0
             /\ events_file = events0
       /\ mpc = "raised" => (merr = "ValueError" /\ columns # {} /\ lacks)

\* main has raised on a table of two events without 'Postcode' column,
\* with an outfile and an events file of a former run on disk.
C19_Witness ==
    /\ mpc = "raised"
    /\ PostcodeColumn \notin columns
    /\ Len(donors_raw) = 2
    /\ outfile0.exists
    /\ events0.exists
    /\ outfile = outfile0
    /\ events_file = events0

\* ------------------------------------------------------------------------
\* Properties of the derived columns
\* ------------------------------------------------------------------------

\* a is the area of the postcode value p: nothing (NA) when p is no string
\* or its trimmed, uppercased form does not start with a letter; otherwise
\* the letters that form starts with, up to the first character that is no
\* letter.
IsAreaOf(a, p) ==
    IF p = NA THEN a = NA
    ELSE LET t == Upper(Strip(p))
         IN IF t = <<>> \/ t[1] \notin UpperLetters THEN a = NA
            ELSE /\ a # NA
                 /\ Len(a) \in 1..Len(t)
                 /\ a = SubSeq(t, 1, Len(a))
                 /\ \A n \in 1..Len(a) : a[n] \in UpperLetters
                 /\ Len(a) < Len(t) => t[Len(a) + 1] \notin UpperLetters

\* C24: extract_prefix gives the area of every postcode value, and the
\* postcode_area column of the donors table holds the area of the postcode
\* of every row.
C24_AreaDerivation ==
    /\ \A r \in DonorRows : IsAreaOf(extract_prefix(r.postcode), r.postcode)
    /\ \A p \in RawPostcodes : IsAreaOf(extract_prefix(p), p)
    /\ npc \in {"clean", "monthly", "done"} =>
          \A n \in 1..Len(donors) :
              IsAreaOf(donors[n].postcode_area, DatedRows[n].postcode)

\* ------------------------------------------------------------------------
\* Properties of the source columns
\* ------------------------------------------------------------------------

\* The distinct sources of the events at the positions S: the values that
\* are present and not blank, without surrounding whitespace.
SourcesOf(S) ==
    {Strip(donors[n].Source) : n \in {k \in S : donors[k].Source # NA /\ Strip(donors[k].Source) # <<>>}}

C25_WitnessUnknown ==
    /\ npc = "done"
    /\ Len(monthly) = 1
    /\ monthly[1].source_list = <<>>
    /\ monthly[1].Source = <<"Unknown">>

\* ------------------------------------------------------------------------
\* Conservation through the aggregation
\* ------------------------------------------------------------------------

\* The sum of events_in_month over the first n rows of monthly.
RECURSIVE MonthlyEvents(_)
MonthlyEvents(n) ==
    IF n = 0 THEN 0 ELSE monthly[n].events_in_month + MonthlyEvents(n - 1)

\* The sum of amount over the first n rows of monthly.
RECURSIVE MonthlyAmount(_)
MonthlyAmount(n) ==
    IF n = 0 THEN 0 ELSE monthly[n].amount + MonthlyAmount(n - 1)

\* The sum of the amounts of the first n dated input rows.
RECURSIVE DatedAmount(_)
DatedAmount(n) ==
    IF n = 0 THEN 0
    ELSE DonationAmount(DatedRows[n].Total_Amount) + DatedAmount(n - 1)

\* C30: every input row whose Month_Year parses to a month from 2022-01 on
\* is counted in exactly one row of monthly, the row of its stripped
\* postcode and its month: the event counts of monthly add up to the
\* number of such rows and the amounts of monthly to the sum of their
\* amounts.  No row of monthly is of a month before 2022-01.
C30_Conservation ==
    npc \in {"monthly", "done"} =>
        /\ \A n \in 1..Len(DatedRows) :
              Cardinality({m \in 1..Len(monthly) :
                             /\ monthly[m].month = MonthOf(DatedRows[n])
                             /\ monthly[m].postcode = Strip(Str(DatedRows[n].postcode))}) = 1
        /\ MonthlyEvents(Len(monthly)) = Len(DatedRows)
        /\ MonthlyAmount(Len(monthly)) = DatedAmount(Len(DatedRows))
        /\ \A m \in 1..Len(monthly) : monthly[m].month[1] >= MinYear

\* Two input rows, one of them of a month before 2022: monthly counts the
\* other row and its amount.
C30_Witness ==
    /\ npc = "done"
    /\ Len(raw_donors) = 2
    /\ Len(DatedRows) = 1
    /\ \E n \in 1..2 : MonthOf(raw_donors[n]) # NaT /\ MonthOf(raw_donors[n])[1] < MinYear
    /\ MonthlyEvents(Len(monthly)) = 1
    /\ MonthlyAmount(Len(monthly)) > 0

\* ------------------------------------------------------------------------
\* Properties of the DonationDataProcessor
\* ------------------------------------------------------------------------

\* The rows of a sequence of batches, one after the other.
RECURSIVE RowsOf(_)
RowsOf(batches) ==
    IF batches = <<>> THEN <<>> ELSE Head(batches) \o RowsOf(Tail(batches))

\* The rows results_df was made from: the results the constructor loaded
\* and every batch merged since.
MergedRows == loaded \o RowsOf(merged)

\* The sum of Total_Amount over the rows of one key.
RECURSIVE TotalOfKey(_, _)
TotalOfKey(rows, k) ==
    IF rows = <<>> THEN 0
    ELSE (IF ResultKey(Head(rows)) = k THEN Head(rows).Total_Amount ELSE 0)
         + TotalOfKey(Tail(rows), k)

\* The sum of Number_of_Donors over the rows of one key.
RECURSIVE DonorsOfKey(_, _)
DonorsOfKey(rows, k) ==
    IF rows = <<>> THEN 0
    ELSE (IF ResultKey(Head(rows)) = k THEN Head(rows).Number_of_Donors ELSE 0)
         + DonorsOfKey(Tail(rows), k)

\* C26: once merge_with_results has run, results_df has one row for every
\* (Month_Year, Postcode, Donor Type) key of the loaded results and of the
\* merged batches and no two rows of one key; Total_Amount and
\* Number_of_Donors of the row are the sums of those fields over all rows
\* of the key in the loaded results and in every merged batch, whatever
\* the order of the batches.
C26_MergeSums ==
    merged # <<>> =>
        /\ \A m, n \in 1..Len(results_df) :
              ResultKey(results_df[m]) = ResultKey(results_df[n]) => m = n
        /\ \A n \in 1..Len(results_df) :
              /\ results_df[n].Total_Amount =
                    TotalOfKey(MergedRows, ResultKey(results_df[n]))
              /\ results_df[n].Number_of_Donors =
                    DonorsOfKey(MergedRows, ResultKey(results_df[n]))
        /\ \A n \in 1..Len(MergedRows) :
              KeyComplete(ResultKey(MergedRows[n])) =>
                  \E m \in 1..Len(results_df) :
                      ResultKey(results_df[m]) = ResultKey(MergedRows[n])

\* Two batches with a key in common: the row of the key has the sum of
\* both.
C26_Witness ==
    /\ dpc = "saved"
    /\ Len(merged) = 2
    /\ merged[1] # merged[2]
    /\ \E n \in 1..Len(results_df) :
          /\ \A b \in 1..2 : TotalOfKey(merged[b], ResultKey(results_df[n])) > 0
          /\ results_df[n].Total_Amount =
                TotalOfKey(merged[1], ResultKey(results_df[n]))
                + TotalOfKey(merged[2], ResultKey(results_df[n]))

\* The positions before n of the files of the list that are exports.
Exports(n) ==
    SelectSeq([k \in 1..(n - 1) |-> k], LAMBDA k : file_list[k].kind = "table")

\* C27: in process_multiple_files a file that does not exist or that
\* process_excel_file raises on leaves results_df and the results CSV as
\* they were; every other file of the list is processed and merged, in
\* the order of the list; and save_results runs once, after the last
\* file.
C27_FileErrorIsolation ==
    /\ [][(dpc = "loop" /\ fidx <= Len(file_list) /\ file_list[fidx].kind # "table")
             => (results_df' = results_df /\ results_csv' = results_csv)]_vars
    /\ [](dpc \in {"loop", "saved"} => processed = Exports(fidx))
    /\ [](dpc = "loop" => saves = 0)
    /\ [](dpc = "saved" => (saves = 1 /\ fidx = Len(file_list) + 1))

\* A list of a file that raises and an export: the export is merged and
\* the results are saved once.
C27_Witness ==
    /\ dpc = "saved"
    /\ Len(file_list) = 2
    /\ file_list[1].kind = "raises"
    /\ file_list[2].kind = "table"
    /\ processed = <<2>>
    /\ results_df # <<>>
    /\ saves = 1

\* C28: a run over the same files by a processor that loaded the results
\* CSV of the run before leaves the totals of every key as they were
\* loaded.
C28_RerunIdempotent ==
    (dpc = "saved" /\ loaded # <<>>) =>
        \A n \in 1..Len(loaded) :
            KeyComplete(ResultKey(loaded[n])) =>
                \E m \in 1..Len(results_df) :
                    /\ ResultKey(results_df[m]) = ResultKey(loaded[n])
                    /\ results_df[m].Total_Amount = loaded[n].Total_Amount
                    /\ results_df[m].Number_of_Donors = loaded[n].Number_of_Donors

====
